---- MODULE Spec2Model ----
(***************************************************************************)
(* Model of the HTTP/3 connection object of neqo-http3                     *)
(* (src/neqo-http3/src/connection.rs).  The connection, its control        *)
(* streams, stream-type readers, request-stream maps, readiness sets and   *)
(* event set are translated from connection.rs.  The QUIC transport, the   *)
(* frame reader, the request streams and the QPACK handles live in other   *)
(* files of the repository; they are modelled from the specification.      *)
(***************************************************************************)
EXTENDS Integers, Sequences, FiniteSets, TLC

(* ------------------------------------------------------------------ *)
(* Bounds of the model                                                 *)
(* ------------------------------------------------------------------ *)
MaxPeerUni == 2
MaxPeerBidi == 1
MaxPeerWrites == 2
MaxLocalBidi == 2
MaxPeerSignals == 1
MaxPending == 2
BigCredit == 24

(* ------------------------------------------------------------------ *)
(* Constants of the program                                            *)
(* ------------------------------------------------------------------ *)
HTTP3_UNI_STREAM_TYPE_CONTROL == 0
HTTP3_UNI_STREAM_TYPE_PUSH == 1
QPACK_UNI_STREAM_TYPE_ENCODER == 2
QPACK_UNI_STREAM_TYPE_DECODER == 3
NUM_PLACEHOLDERS_DEFAULT == 0
(* u64::max_value(), held in the widest integer the checker has *)
MAX_HEADER_LIST_SIZE_DEFAULT == 2147483647

H3_FRAME_TYPE_DATA == 0
H3_FRAME_TYPE_HEADERS == 1
H3_FRAME_TYPE_PRIORITY == 2
H3_FRAME_TYPE_CANCEL_PUSH == 3
H3_FRAME_TYPE_SETTINGS == 4
H3_FRAME_TYPE_PUSH_PROMISE == 5
H3_FRAME_TYPE_GOAWAY == 7
H3_FRAME_TYPE_MAX_PUSH_ID == 13
H3_FRAME_TYPE_DUPLICATE_PUSH == 14
H3_FRAME_TYPE_UNKNOWN == 255

SETTINGS_MAX_HEADER_LIST_SIZE == 6
SETTINGS_NUM_PLACEHOLDERS == 9
SETTINGS_QPACK_MAX_TABLE_SIZE == 1
SETTINGS_QPACK_BLOCKED_STREAMS == 7

(* Error::code(): the wire code of each protocol error *)
HttpNoError == 0
PushRefused == 2
WrongStream == 10
UnknownStreamType == 13
WrongStreamCount == 14
ClosedCriticalStream == 15
WrongStreamDirection == 16
MissingSettings == 18
UnexpectedFrame == 19
MalformedFrameBase == 256
TransportError == 1000
MalformedFrame(t) == MalformedFrameBase + t

(* is_stream_error(): errors that are isolated to one request stream *)
IsStreamError(e) == e \in {WrongStream, UnexpectedFrame}

(* Http3Error::NetReset, the reason of RequestClosed *)
NetReset == "NetReset"

(* Result of an operation that did not fail *)
NoErr == -1
None == -1

(* the QPACK limits the connection is constructed with *)
QpackMaxTableSize == 100
QpackMaxBlockedStreams == 100

(* ------------------------------------------------------------------ *)
(* Sequences and sets                                                  *)
(* ------------------------------------------------------------------ *)
(* binds the value of an expression to a name *)
With(v, Op(_)) == Op(v)

Range(s) == {s[i] : i \in 1..Len(s)}

Min(a, b) == IF a <= b THEN a ELSE b

MinOf(S) == CHOOSE x \in S : \A y \in S : x <= y

RECURSIVE SortedSeq(_)
SortedSeq(S) == IF S = {} THEN <<>> ELSE <<MinOf(S)>> \o SortedSeq(S \ {MinOf(S)})

(* ------------------------------------------------------------------ *)
(* QUIC variable-length integers (Encoder::encode_varint and the       *)
(* incremental decoder)                                                *)
(* ------------------------------------------------------------------ *)
EncodeVarint(v) ==
    IF v < 64 THEN <<v>>
    ELSE <<64 + (v \div 256), v % 256>>

(* length of a varint, from the top two bits of its first byte *)
VarintLen(b) ==
    CASE b \div 64 = 0 -> 1
      [] b \div 64 = 1 -> 2
      [] b \div 64 = 2 -> 4
      [] OTHER -> 8

RECURSIVE VarintFold(_, _)
VarintFold(bytes, accv) ==
    IF bytes = <<>> THEN accv
    ELSE VarintFold(Tail(bytes), accv * 256 + Head(bytes))

(* value of a complete varint *)
VarintValue(bytes) == VarintFold(Tail(bytes), Head(bytes) % 64)

(* IncrementalDecoder::min_remaining for decode_varint *)
DecMinRemaining(acc) ==
    IF acc = <<>> THEN 1 ELSE VarintLen(acc[1]) - Len(acc)

(* ------------------------------------------------------------------ *)
(* Frame encoding (HFrame::encode)                                     *)
(* ------------------------------------------------------------------ *)
RECURSIVE EncodeSettingsPayload(_)
EncodeSettingsPayload(settings) ==
    IF settings = <<>> THEN <<>>
    ELSE EncodeVarint(Head(settings)[1]) \o EncodeVarint(Head(settings)[2])
         \o EncodeSettingsPayload(Tail(settings))

EncodeFrame(type, payload) ==
    EncodeVarint(type) \o EncodeVarint(Len(payload)) \o payload

EncodeSettingsFrame(settings) ==
    EncodeFrame(H3_FRAME_TYPE_SETTINGS, EncodeSettingsPayload(settings))

(* ------------------------------------------------------------------ *)
(* Frame reader (HFrameReader): type varint, length varint, payload    *)
(* ------------------------------------------------------------------ *)
KnownFrameTypes ==
    {H3_FRAME_TYPE_DATA, H3_FRAME_TYPE_HEADERS, H3_FRAME_TYPE_PRIORITY,
     H3_FRAME_TYPE_CANCEL_PUSH, H3_FRAME_TYPE_SETTINGS, H3_FRAME_TYPE_PUSH_PROMISE,
     H3_FRAME_TYPE_GOAWAY, H3_FRAME_TYPE_MAX_PUSH_ID, H3_FRAME_TYPE_DUPLICATE_PUSH}

FrHasType(acc) == Len(acc) >= 1 /\ Len(acc) >= VarintLen(acc[1])

FrTypeLen(acc) == VarintLen(acc[1])

FrType(acc) == VarintValue(SubSeq(acc, 1, FrTypeLen(acc)))

FrHasLen(acc) ==
    /\ FrHasType(acc)
    /\ Len(acc) > FrTypeLen(acc)
    /\ Len(acc) >= FrTypeLen(acc) + VarintLen(acc[FrTypeLen(acc) + 1])

FrHdrLen(acc) == FrTypeLen(acc) + VarintLen(acc[FrTypeLen(acc) + 1])

FrLen(acc) == VarintValue(SubSeq(acc, FrTypeLen(acc) + 1, FrHdrLen(acc)))

FrPayload(acc) == SubSeq(acc, FrHdrLen(acc) + 1, Len(acc))

(* bytes the reader asks the transport for next; a DATA frame is done   *)
(* with its header, its payload is read by read_data; a PUSH_PROMISE     *)
(* frame is done with its push id, the header block stays on the stream  *)
FrameNeeded(acc) ==
    IF acc = <<>> THEN 1
    ELSE IF ~FrHasType(acc) THEN FrTypeLen(acc) - Len(acc)
    ELSE IF Len(acc) = FrTypeLen(acc) THEN 1
    ELSE IF ~FrHasLen(acc) THEN FrHdrLen(acc) - Len(acc)
    ELSE IF FrType(acc) = H3_FRAME_TYPE_DATA THEN 0
    ELSE IF FrType(acc) = H3_FRAME_TYPE_PUSH_PROMISE
    THEN IF Len(acc) = FrHdrLen(acc) THEN 1
         ELSE FrHdrLen(acc) + VarintLen(acc[FrHdrLen(acc) + 1]) - Len(acc)
    ELSE FrHdrLen(acc) + FrLen(acc) - Len(acc)

(* HFrameReader::done *)
FrameDone(acc) == FrHasLen(acc) /\ FrameNeeded(acc) = 0

(* the type reported by MalformedFrame: the parsed type when it is a     *)
(* known frame type, else the 0xff sentinel                              *)
MalformedType(acc) ==
    IF FrHasType(acc) /\ FrType(acc) \in KnownFrameTypes
    THEN FrType(acc) ELSE H3_FRAME_TYPE_UNKNOWN

RECURSIVE DecodeSettingsPayload(_)
DecodeSettingsPayload(p) ==
    IF p = <<>> \/ Len(p) < VarintLen(p[1]) THEN <<>>
    ELSE LET l1 == VarintLen(p[1])
             r == SubSeq(p, l1 + 1, Len(p))
         IN IF r = <<>> \/ Len(r) < VarintLen(r[1]) THEN <<>>
            ELSE LET l2 == VarintLen(r[1])
                 IN <<<<VarintValue(SubSeq(p, 1, l1)), VarintValue(SubSeq(r, 1, l2))>>>>
                    \o DecodeSettingsPayload(SubSeq(r, l2 + 1, Len(r)))

(* HFrameReader::get_frame: the decoded frame of a done reader *)
GetFrame(acc) ==
    [type |-> FrType(acc),
     len |-> FrLen(acc),
     settings |-> IF FrType(acc) = H3_FRAME_TYPE_SETTINGS
                  THEN DecodeSettingsPayload(FrPayload(acc)) ELSE <<>>,
     id |-> IF FrType(acc) \in {H3_FRAME_TYPE_GOAWAY, H3_FRAME_TYPE_MAX_PUSH_ID,
                                H3_FRAME_TYPE_CANCEL_PUSH, H3_FRAME_TYPE_DUPLICATE_PUSH}
               /\ FrPayload(acc) # <<>>
               /\ Len(FrPayload(acc)) >= VarintLen(FrPayload(acc)[1])
            THEN VarintValue(SubSeq(FrPayload(acc), 1, VarintLen(FrPayload(acc)[1])))
            ELSE 0,
     payload |-> IF FrType(acc) = H3_FRAME_TYPE_DATA THEN <<>> ELSE FrPayload(acc)]

(* ------------------------------------------------------------------ *)
(* The QUIC transport (Connection), as far as the HTTP/3 layer uses it *)
(* ------------------------------------------------------------------ *)
TEvent(e, id, bidi, code) == [e |-> e, id |-> id, bidi |-> bidi, code |-> code]

(* events are kept in arrival order, each at most once *)
TPush(c, ev) ==
    IF ev \in Range(c.events) THEN c ELSE [c EXCEPT !.events = Append(@, ev)]

(* first id of the streams a role initiates: bit 0 is the initiator,    *)
(* bit 1 the directionality                                              *)
StreamBase(role, bidi) ==
    (IF role = "Client" THEN 0 ELSE 1) + (IF bidi THEN 0 ELSE 2)

PeerRole(role) == IF role = "Client" THEN "Server" ELSE "Client"

(* stream_create: [err, id, conn] *)
StreamCreate(c, role, bidi) ==
    IF c.state # "Connected" THEN [err |-> TransportError, id |-> None, conn |-> c]
    ELSE IF bidi
    THEN IF c.bidi_created >= c.max_bidi
         THEN [err |-> TransportError, id |-> None, conn |-> c]
         ELSE LET id == StreamBase(role, TRUE) + 4 * c.bidi_created
              IN [err |-> NoErr, id |-> id,
                  conn |-> [c EXCEPT !.bidi_created = @ + 1,
                                     !.sent = [s \in DOMAIN @ \cup {id} |->
                                                 IF s = id THEN <<>> ELSE @[s]],
                                     !.recv = [s \in DOMAIN @ \cup {id} |->
                                                 IF s = id THEN [data |-> <<>>, fin |-> FALSE]
                                                 ELSE @[s]]]]
    ELSE IF c.uni_created >= c.max_uni
         THEN [err |-> TransportError, id |-> None, conn |-> c]
         ELSE LET id == StreamBase(role, FALSE) + 4 * c.uni_created
              IN [err |-> NoErr, id |-> id,
                  conn |-> [c EXCEPT !.uni_created = @ + 1,
                                     !.sent = [s \in DOMAIN @ \cup {id} |->
                                                 IF s = id THEN <<>> ELSE @[s]]]]

(* stream_send: the transport accepts what its send credit allows:       *)
(* [err, n, conn]                                                        *)
StreamSend(c, id, bytes) ==
    IF id \notin DOMAIN c.sent THEN [err |-> TransportError, n |-> 0, conn |-> c]
    ELSE LET n == Min(Len(bytes), c.credit)
         IN [err |-> NoErr, n |-> n,
             conn |-> [c EXCEPT !.sent[id] = @ \o SubSeq(bytes, 1, n),
                                !.credit = @ - n]]

(* stream_recv into a buffer of n bytes: [err, bytes, fin, conn]; fin is *)
(* reported by the read that reaches the end of a finished stream        *)
StreamRecv(c, id, n) ==
    IF id \notin DOMAIN c.recv
    THEN [err |-> TransportError, bytes |-> <<>>, fin |-> FALSE, conn |-> c]
    ELSE LET amount == Min(n, Len(c.recv[id].data))
         IN [err |-> NoErr,
             bytes |-> SubSeq(c.recv[id].data, 1, amount),
             fin |-> c.recv[id].fin /\ amount = Len(c.recv[id].data),
             conn |-> [c EXCEPT !.recv[id].data = SubSeq(@, amount + 1, Len(@))]]

(* stream_stop_sending *)
StreamStopSending(c, id, code) ==
    [c EXCEPT !.stop_sending = @ \cup {<<id, code>>}]

(* stream_close_send *)
StreamCloseSend(c, id) == [c EXCEPT !.send_closed = @ \cup {id}]

(* close(flags, code, msg): a transport that is not yet closed starts    *)
(* closing with the application code                                     *)
ConnClose(c, code) ==
    IF c.state = "Closed" THEN c
    ELSE [c EXCEPT !.state = "Closing", !.close_code = code]

(* HFrameReader::receive: feeds the reader until a frame is complete or  *)
(* nothing more is readable; [err, acc, fin, conn]                       *)
RECURSIVE FrameReaderReceive(_, _, _)
FrameReaderReceive(c, id, acc) ==
    With(StreamRecv(c, id, FrameNeeded(acc)), LAMBDA r :
       IF r.err # NoErr THEN [err |-> r.err, acc |-> acc, fin |-> FALSE, conn |-> c]
       ELSE IF r.fin THEN [err |-> NoErr, acc |-> acc \o r.bytes, fin |-> TRUE, conn |-> r.conn]
       ELSE IF r.bytes = <<>> THEN [err |-> NoErr, acc |-> acc, fin |-> FALSE, conn |-> r.conn]
       ELSE IF FrameDone(acc \o r.bytes)
            THEN [err |-> NoErr, acc |-> acc \o r.bytes, fin |-> FALSE, conn |-> r.conn]
            ELSE FrameReaderReceive(r.conn, id, acc \o r.bytes))

(* ------------------------------------------------------------------ *)
(* State of the HTTP/3 connection                                      *)
(* ------------------------------------------------------------------ *)
VARIABLES
    state,                      \* Http3State
    role,                       \* conn.role(): "Client" or "Server"
    conn,                       \* the QUIC transport connection
    max_header_list_size,
    num_placeholders,
    control_stream_local,       \* [stream_id, buf]
    control_stream_remote,      \* [stream_id, frame_reader, fin]
    new_streams,                \* stream id -> NewStreamTypeReader
    qpack_encoder,
    qpack_decoder,
    settings_received,
    streams_are_readable,
    streams_have_data_to_send,
    events,                     \* Http3Events.events
    request_streams_client,     \* stream id -> RequestStreamClient
    request_streams_server,     \* stream id -> RequestStreamServer
    peer,                       \* what the remote endpoint has done so far
    log                         \* record of the calls made and results returned

vars == <<state, role, conn, max_header_list_size, num_placeholders,
          control_stream_local, control_stream_remote, new_streams,
          qpack_encoder, qpack_decoder, settings_received,
          streams_are_readable, streams_have_data_to_send, events,
          request_streams_client, request_streams_server, peer, log>>

(* Http3State *)
Initializing == [t |-> "Initializing", code |-> None]
Connected == [t |-> "Connected", code |-> None]
GoingAway == [t |-> "GoingAway", code |-> None]
Closing(code) == [t |-> "Closing", code |-> code]
Closed(code) == [t |-> "Closed", code |-> code]

(* Http3Event *)
HeaderReady(id) == [e |-> "HeaderReady", id |-> id, error |-> "", code |-> None]
DataReadable(id) == [e |-> "DataReadable", id |-> id, error |-> "", code |-> None]
RequestClosed(id, error) == [e |-> "RequestClosed", id |-> id, error |-> error, code |-> None]
NewPushStream(id) == [e |-> "NewPushStream", id |-> id, error |-> "", code |-> None]
ConnectionClosed(code) == [e |-> "ConnectionClosed", id |-> None, error |-> "", code |-> code]

(* the connection object as one value, with the result of the operation *)
(* in progress in err                                                   *)
Self ==
    [state |-> state, role |-> role, conn |-> conn,
     max_header_list_size |-> max_header_list_size,
     num_placeholders |-> num_placeholders,
     control_stream_local |-> control_stream_local,
     control_stream_remote |-> control_stream_remote,
     new_streams |-> new_streams,
     qpack_encoder |-> qpack_encoder, qpack_decoder |-> qpack_decoder,
     settings_received |-> settings_received,
     streams_are_readable |-> streams_are_readable,
     streams_have_data_to_send |-> streams_have_data_to_send,
     events |-> events,
     request_streams_client |-> request_streams_client,
     request_streams_server |-> request_streams_server,
     log |-> log,
     err |-> NoErr]

NonEmpty(S) == S # {}

(* the pending events in the order of their insertion, as far as the     *)
(* calls tell it: one set for each call that inserted events, an event   *)
(* staying where it was first inserted for as long as it is pending      *)
Queued(h) ==
    SelectSeq([i \in 1..Len(log.queued) |-> log.queued[i] \cap h.events], NonEmpty)
        \o (IF h.events \subseteq events THEN <<>> ELSE <<h.events \ events>>)

Commit(h) ==
    /\ state' = h.state
    /\ role' = h.role
    /\ conn' = h.conn
    /\ max_header_list_size' = h.max_header_list_size
    /\ num_placeholders' = h.num_placeholders
    /\ control_stream_local' = h.control_stream_local
    /\ control_stream_remote' = h.control_stream_remote
    /\ new_streams' = h.new_streams
    /\ qpack_encoder' = h.qpack_encoder
    /\ qpack_decoder' = h.qpack_decoder
    /\ settings_received' = h.settings_received
    /\ streams_are_readable' = h.streams_are_readable
    /\ streams_have_data_to_send' = h.streams_have_data_to_send
    /\ events' = h.events
    /\ request_streams_client' = h.request_streams_client
    /\ request_streams_server' = h.request_streams_server
    /\ log' = [h.log EXCEPT !.queued = Queued(h)]

Fail(h, e) == [h EXCEPT !.err = e]

EmptyMap == [x \in {} |-> 0]

MapPut(m, k, v) == [x \in DOMAIN m \cup {k} |-> IF x = k THEN v ELSE m[x]]

MapRemove(m, k) == [x \in DOMAIN m \ {k} |-> m[x]]

(* ------------------------------------------------------------------ *)
(* QPACK encoder and decoder handles: stream ownership and routing     *)
(* ------------------------------------------------------------------ *)
QPackNew(max_table_size, max_blocked_streams) ==
    [send_stream |-> None, recv_stream |-> None, send_buf |-> <<>>,
     max_table_size |-> max_table_size, max_blocked_streams |-> max_blocked_streams]

(* add_send_stream: binds the outbound stream and queues its type *)
QPackAddSendStream(q, id, type) ==
    [q EXCEPT !.send_stream = id, !.send_buf = @ \o EncodeVarint(type)]

(* add_recv_stream *)
QPackAddRecvStream(q, id) == [q EXCEPT !.recv_stream = id]

(* has_recv_stream *)
QPackHasRecvStream(q) == q.recv_stream # None

(* is_recv_stream *)
QPackIsRecvStream(q, id) == q.recv_stream # None /\ q.recv_stream = id

(* receive on the inbound stream: consumes what is readable; the end of *)
(* the stream is the closure of a critical stream: [err, conn]          *)
QPackReceive(c, id) ==
    With(StreamRecv(c, id, Len(c.recv[id].data)), LAMBDA r :
       IF r.fin THEN [err |-> ClosedCriticalStream, conn |-> r.conn]
       ELSE [err |-> NoErr, conn |-> r.conn])

(* send: drains the handle's buffer into its outbound stream: [err, q, conn] *)
QPackSend(q, c) ==
    IF q.send_stream = None \/ q.send_buf = <<>>
    THEN [err |-> NoErr, q |-> q, conn |-> c]
    ELSE With(StreamSend(c, q.send_stream, q.send_buf), LAMBDA r :
            IF r.err # NoErr THEN [err |-> r.err, q |-> q, conn |-> c]
            ELSE [err |-> NoErr,
                  q |-> [q EXCEPT !.send_buf = SubSeq(@, r.n + 1, Len(@))],
                  conn |-> r.conn])

(* ------------------------------------------------------------------ *)
(* ControlStreamLocal                                                  *)
(* ------------------------------------------------------------------ *)
(* send_frame *)
LocalSendFrame(cl, bytes) == [cl EXCEPT !.buf = @ \o bytes]

(* send that takes the whole buffer for sent whatever the transport took *)
LocalSendClears(cl, c) ==
    IF cl.stream_id # None /\ cl.buf # <<>>
    THEN With(StreamSend(c, cl.stream_id, cl.buf), LAMBDA r :
            IF r.err # NoErr THEN [err |-> r.err, cl |-> cl, conn |-> c]
            ELSE [err |-> NoErr, cl |-> [cl EXCEPT !.buf = <<>>], conn |-> r.conn])
    ELSE [err |-> NoErr, cl |-> cl, conn |-> c]

(* send: [err, cl, conn] *)
LocalSend(cl, c) ==
    IF cl.stream_id # None /\ cl.buf # <<>>
    THEN With(StreamSend(c, cl.stream_id, cl.buf), LAMBDA r :
            IF r.err # NoErr THEN [err |-> r.err, cl |-> cl, conn |-> c]
            ELSE IF r.n = Len(cl.buf)
                 THEN [err |-> NoErr, cl |-> [cl EXCEPT !.buf = <<>>], conn |-> r.conn]
                 ELSE [err |-> NoErr,
                       cl |-> [cl EXCEPT !.buf = SubSeq(@, r.n + 1, Len(@))],
                       conn |-> r.conn])
    ELSE [err |-> NoErr, cl |-> cl, conn |-> c]

(* ------------------------------------------------------------------ *)
(* ControlStreamRemote                                                 *)
(* ------------------------------------------------------------------ *)
(* add_remote_stream that binds the stream it is given, bound or not *)
AddRemoteStreamRebind(cr, stream_id) ==
    [err |-> NoErr, cr |-> [cr EXCEPT !.stream_id = stream_id]]

(* add_remote_stream: [err, cr] *)
AddRemoteStream(cr, stream_id) ==
    IF cr.stream_id # None
    THEN [err |-> WrongStreamCount, cr |-> cr]
    ELSE [err |-> NoErr, cr |-> [cr EXCEPT !.stream_id = stream_id]]

(* receive_if_this_stream: [err, matched, cr, conn] *)
ReceiveIfThisStream(cr, c, stream_id) ==
    IF cr.stream_id # None /\ cr.stream_id = stream_id
    THEN With(FrameReaderReceive(c, stream_id, cr.frame_reader), LAMBDA r :
            IF r.err # NoErr
            THEN [err |-> r.err, matched |-> FALSE, cr |-> cr, conn |-> c]
            ELSE [err |-> NoErr, matched |-> TRUE,
                  cr |-> [cr EXCEPT !.frame_reader = r.acc, !.fin = r.fin],
                  conn |-> r.conn])
    ELSE [err |-> NoErr, matched |-> FALSE, cr |-> cr, conn |-> c]

(* ------------------------------------------------------------------ *)
(* NewStreamTypeReader                                                 *)
(* ------------------------------------------------------------------ *)
NewStreamTypeReaderNew == [reader |-> <<>>, fin |-> FALSE]

(* get_type: [type, ns, conn]; type is None when no type is available *)
RECURSIVE GetType(_, _, _)
GetType(ns, c, stream_id) ==
    With(StreamRecv(c, stream_id, DecMinRemaining(ns.reader)), LAMBDA r :
       IF r.err # NoErr
       THEN [type |-> None, ns |-> [ns EXCEPT !.fin = TRUE], conn |-> c]
       ELSE IF r.fin
       THEN [type |-> None, ns |-> [ns EXCEPT !.fin = TRUE], conn |-> r.conn]
       ELSE IF r.bytes = <<>>
       THEN [type |-> None, ns |-> ns, conn |-> r.conn]
       ELSE LET acc == ns.reader \o r.bytes
            IN IF Len(acc) = VarintLen(acc[1])
               THEN [type |-> VarintValue(acc), ns |-> [ns EXCEPT !.reader = <<>>],
                     conn |-> r.conn]
               ELSE GetType([ns EXCEPT !.reader = acc], r.conn, stream_id))

(* ------------------------------------------------------------------ *)
(* RequestStreamClient                                                 *)
(* ------------------------------------------------------------------ *)
(* the header block of the request, as the QPACK encoder produces it *)
RequestHeaderBlock == <<0, 0>>

RequestStreamClientNew ==
    [send_state |-> "SendingHeaders", send_buf |-> <<>>,
     recv_state |-> "WaitingForResponseHeaders", frame_reader |-> <<>>,
     remaining |-> 0, headers |-> <<>>, has_headers |-> FALSE, done |-> FALSE]

(* has_data_to_send *)
ClientHasDataToSend(rs) == rs.send_state = "SendingHeaders" \/ rs.send_buf # <<>>

(* send: the first call encodes the HEADERS frame; the buffer is drained *)
(* into the transport and the sending side is closed when it is empty:   *)
(* [err, rs, conn]                                                       *)
ClientSend(rs, c, id) ==
    With(IF rs.send_state = "SendingHeaders"
               THEN rs.send_buf \o EncodeFrame(H3_FRAME_TYPE_HEADERS, RequestHeaderBlock)
               ELSE rs.send_buf, LAMBDA buf :
    With(StreamSend(c, id, buf), LAMBDA r :
       IF buf = <<>> THEN [err |-> NoErr, rs |-> rs, conn |-> c]
       ELSE IF r.err # NoErr THEN [err |-> r.err, rs |-> rs, conn |-> c]
       ELSE [err |-> NoErr,
             rs |-> [rs EXCEPT !.send_state = "Sent",
                               !.send_buf = SubSeq(buf, r.n + 1, Len(buf))],
             conn |-> IF r.n = Len(buf) THEN StreamCloseSend(r.conn, id) ELSE r.conn]))

(* the error of a frame that may not appear on a request stream, NoErr   *)
(* for HEADERS and DATA                                                  *)
RequestFrameError(type, recv_state) ==
    CASE type = H3_FRAME_TYPE_HEADERS -> NoErr
      [] type = H3_FRAME_TYPE_DATA ->
            IF recv_state = "WaitingForResponseHeaders" THEN UnexpectedFrame ELSE NoErr
      [] type \in {H3_FRAME_TYPE_SETTINGS, H3_FRAME_TYPE_GOAWAY,
                   H3_FRAME_TYPE_MAX_PUSH_ID, H3_FRAME_TYPE_CANCEL_PUSH} -> WrongStream
      [] OTHER -> UnexpectedFrame

(* receive: feeds the frame parser from the transport and acts on every  *)
(* complete frame; works on the connection because it queues events.     *)
(* While the body of a DATA frame is being read the application is told  *)
(* again that there is data, which is what lets a read that stopped      *)
(* short go on without another event of the transport                    *)
RECURSIVE ClientReceive(_, _)
ClientReceive(h, id) ==
    LET rs == h.request_streams_client[id]
    IN IF rs.recv_state = "ReadingData"
       THEN [h EXCEPT !.events = @ \cup {DataReadable(id)}]
       ELSE IF rs.recv_state \notin {"WaitingForResponseHeaders", "WaitingForData"} THEN h
       ELSE
       With(FrameReaderReceive(h.conn, id, rs.frame_reader), LAMBDA r :
       With([h EXCEPT !.conn = r.conn,
                           !.request_streams_client[id].frame_reader = r.acc], LAMBDA h1 :
          IF r.err # NoErr THEN Fail(h, r.err)
          ELSE IF FrameDone(r.acc)
          THEN With(GetFrame(r.acc), LAMBDA f :
               With(RequestFrameError(f.type, rs.recv_state), LAMBDA e :
               With([h1 EXCEPT !.request_streams_client[id].frame_reader = <<>>], LAMBDA h2 :
                  IF e # NoErr THEN Fail(h2, e)
                  ELSE IF f.type = H3_FRAME_TYPE_DATA
                  THEN [h2 EXCEPT !.request_streams_client[id].recv_state = "ReadingData",
                                  !.request_streams_client[id].remaining = f.len,
                                  !.events = @ \cup {DataReadable(id)}]
                  ELSE IF rs.recv_state = "WaitingForResponseHeaders"
                  THEN ClientReceive(
                         [h2 EXCEPT !.request_streams_client[id].recv_state = "WaitingForData",
                                    !.request_streams_client[id].headers = f.payload,
                                    !.request_streams_client[id].has_headers = TRUE,
                                    !.events = @ \cup {HeaderReady(id)}], id)
                  ELSE ClientReceive(h2, id))))
          ELSE IF r.fin
          THEN IF r.acc # <<>> THEN Fail(h1, MalformedFrame(MalformedType(r.acc)))
               ELSE [h1 EXCEPT !.request_streams_client[id].recv_state = "Closed",
                               !.events = @ \cup {DataReadable(id)}]
          ELSE h1))

(* read_data into a buffer of buf_len bytes: [err, amount, fin, rs, conn] *)
ClientReadData(rs, c, id, buf_len) ==
    IF rs.recv_state = "ReadingData"
    THEN With(StreamRecv(c, id, Min(rs.remaining, buf_len)), LAMBDA r :
         With(Len(r.bytes), LAMBDA amount :
            IF r.err # NoErr
            THEN [err |-> r.err, amount |-> 0, fin |-> FALSE, rs |-> rs, conn |-> c]
            ELSE IF r.fin /\ amount # rs.remaining
            THEN [err |-> MalformedFrame(H3_FRAME_TYPE_DATA), amount |-> 0, fin |-> FALSE,
                  rs |-> rs, conn |-> r.conn]
            ELSE [err |-> NoErr, amount |-> amount, fin |-> r.fin,
                  rs |-> [rs EXCEPT !.remaining = @ - amount,
                                    !.recv_state = IF r.fin THEN "Closed"
                                                   ELSE IF amount = rs.remaining
                                                   THEN "WaitingForData"
                                                   ELSE "ReadingData",
                                    !.done = r.fin],
                  conn |-> r.conn]))
    ELSE IF rs.recv_state = "Closed"
    THEN [err |-> NoErr, amount |-> 0, fin |-> TRUE, rs |-> [rs EXCEPT !.done = TRUE],
          conn |-> c]
    ELSE [err |-> NoErr, amount |-> 0, fin |-> FALSE, rs |-> rs, conn |-> c]

(* ------------------------------------------------------------------ *)
(* RequestStreamServer                                                 *)
(* ------------------------------------------------------------------ *)
ResponseHeaderBlock == <<0, 0>>

ResponseBody == <<97>>

RequestStreamServerNew ==
    [recv_state |-> "WaitingForRequestHeaders", frame_reader |-> <<>>,
     request_headers |-> <<>>, has_headers |-> FALSE, fin |-> FALSE,
     send_buf |-> <<>>, responded |-> FALSE]

(* done_reading_request: the HEADERS frame and the end of the request    *)
(* have been received                                                    *)
ServerDoneReadingRequest(rs) == rs.has_headers /\ rs.fin

(* has_data_to_send *)
ServerHasDataToSend(rs) == rs.send_buf # <<>>

(* set_response: a HEADERS frame followed by a single DATA frame *)
ServerSetResponse(rs, header_block, body) ==
    [rs EXCEPT !.send_buf = @ \o EncodeFrame(H3_FRAME_TYPE_HEADERS, header_block)
                              \o EncodeFrame(H3_FRAME_TYPE_DATA, body),
               !.responded = TRUE]

(* send: [err, rs, conn] *)
ServerSend(rs, c, id) ==
    IF rs.send_buf = <<>> THEN [err |-> NoErr, rs |-> rs, conn |-> c]
    ELSE With(StreamSend(c, id, rs.send_buf), LAMBDA r :
            IF r.err # NoErr THEN [err |-> r.err, rs |-> rs, conn |-> c]
            ELSE [err |-> NoErr,
                  rs |-> [rs EXCEPT !.send_buf = SubSeq(@, r.n + 1, Len(@))],
                  conn |-> IF r.n = Len(rs.send_buf) THEN StreamCloseSend(r.conn, id)
                           ELSE r.conn])

(* receive: [err, rs, conn] *)
RECURSIVE ServerReceive(_, _, _)
ServerReceive(rs, c, id) ==
    IF rs.fin THEN [err |-> NoErr, rs |-> rs, conn |-> c]
    ELSE
    With(FrameReaderReceive(c, id, rs.frame_reader), LAMBDA r :
    With([rs EXCEPT !.frame_reader = r.acc], LAMBDA rs1 :
       IF r.err # NoErr THEN [err |-> r.err, rs |-> rs, conn |-> c]
       ELSE IF FrameDone(r.acc)
       THEN With(GetFrame(r.acc), LAMBDA f :
            With(IF f.type = H3_FRAME_TYPE_PRIORITY THEN NoErr
                     ELSE RequestFrameError(f.type, IF rs.has_headers THEN "WaitingForData"
                                                    ELSE "WaitingForResponseHeaders"), LAMBDA e :
            With([rs1 EXCEPT !.frame_reader = <<>>], LAMBDA rs2 :
               IF f.type = H3_FRAME_TYPE_HEADERS /\ ~rs.has_headers
               THEN ServerReceive([rs2 EXCEPT !.request_headers = f.payload,
                                              !.has_headers = TRUE,
                                              !.recv_state = "WaitingForData"], r.conn, id)
               ELSE IF e # NoErr THEN [err |-> e, rs |-> rs2, conn |-> r.conn]
               ELSE IF f.type = H3_FRAME_TYPE_DATA
               THEN ServerReceive(rs2, StreamRecv(r.conn, id, f.len).conn, id)
               ELSE ServerReceive(rs2, r.conn, id))))
       ELSE IF r.fin
       THEN IF r.acc # <<>>
            THEN [err |-> MalformedFrame(MalformedType(r.acc)), rs |-> rs1, conn |-> r.conn]
            ELSE [err |-> NoErr, rs |-> [rs1 EXCEPT !.fin = TRUE, !.recv_state = "Closed"],
                  conn |-> r.conn]
       ELSE [err |-> NoErr, rs |-> rs1, conn |-> r.conn]))

(* ------------------------------------------------------------------ *)
(* Http3Connection                                                     *)
(* ------------------------------------------------------------------ *)
(* close that leaves the request streams where they are *)
CloseKeepsStreams(h, error) ==
    [h EXCEPT !.state = Closing(error),
              !.conn = ConnClose(@, error)]

(* close *)
Close(h, error) ==
    [h EXCEPT !.state = Closing(error),
              !.request_streams_client = EmptyMap,
              !.request_streams_server = EmptyMap,
              !.conn = ConnClose(@, error)]

(* check_result: an error closes the connection with the error's code *)
CheckResult(h) ==
    IF h.err # NoErr THEN Close([h EXCEPT !.err = NoErr], h.err) ELSE h

(* create_control_stream *)
CreateControlStream(h) ==
    With(StreamCreate(h.conn, h.role, FALSE), LAMBDA r :
       IF r.err # NoErr THEN Fail(h, r.err)
       ELSE [h EXCEPT !.conn = r.conn,
                      !.control_stream_local.stream_id = r.id,
                      !.control_stream_local.buf =
                          @ \o EncodeVarint(HTTP3_UNI_STREAM_TYPE_CONTROL)])

(* create_settings *)
CreateSettings(h) ==
    [h EXCEPT !.control_stream_local =
        LocalSendFrame(@, EncodeSettingsFrame(
            <<<<SETTINGS_QPACK_MAX_TABLE_SIZE, h.qpack_decoder.max_table_size>>,
              <<SETTINGS_QPACK_BLOCKED_STREAMS, h.qpack_decoder.max_blocked_streams>>>>))]

(* create_qpack_streams *)
CreateQpackStreams(h) ==
    With(StreamCreate(h.conn, h.role, FALSE), LAMBDA r1 :
    With(StreamCreate(r1.conn, h.role, FALSE), LAMBDA r2 :
       IF r1.err # NoErr THEN Fail(h, r1.err)
       ELSE IF r2.err # NoErr
       THEN Fail([h EXCEPT !.conn = r1.conn,
                           !.qpack_encoder =
                               QPackAddSendStream(@, r1.id, QPACK_UNI_STREAM_TYPE_ENCODER)],
                 r2.err)
       ELSE [h EXCEPT !.conn = r2.conn,
                      !.qpack_encoder =
                          QPackAddSendStream(@, r1.id, QPACK_UNI_STREAM_TYPE_ENCODER),
                      !.qpack_decoder =
                          QPackAddSendStream(@, r2.id, QPACK_UNI_STREAM_TYPE_DECODER)]))

(* initialize_http3_connection *)
InitializeHttp3Connection(h) ==
    With(CreateControlStream(h), LAMBDA h1 :
       IF h1.err # NoErr THEN h1
       ELSE CreateQpackStreams(CreateSettings(h1)))

(* check_state_change that initialises whenever the transport is        *)
(* Connected and the connection is not closing, not only in              *)
(* Initializing                                                          *)
CheckStateChangeAgain(h) ==
    IF h.state \in {Initializing, Connected, GoingAway}
    THEN IF h.conn.state = "Connected"
         THEN CheckResult(InitializeHttp3Connection([h EXCEPT !.state = Connected]))
         ELSE h
    ELSE IF h.state.t = "Closing"
    THEN IF h.conn.state = "Closed" THEN [h EXCEPT !.state = Closed(h.state.code)] ELSE h
    ELSE h

(* check_state_change that reports the close of the transport without   *)
(* the code the connection was closing with                              *)
CheckStateChangeDropsCode(h) ==
    IF h.state = Initializing
    THEN IF h.conn.state = "Connected"
         THEN CheckResult(InitializeHttp3Connection([h EXCEPT !.state = Connected]))
         ELSE h
    ELSE IF h.state.t = "Closing"
    THEN IF h.conn.state = "Closed" THEN [h EXCEPT !.state = Closed(HttpNoError)] ELSE h
    ELSE h

(* check_state_change *)
CheckStateChange(h) ==
    IF h.state = Initializing
    THEN IF h.conn.state = "Connected"
         THEN CheckResult(InitializeHttp3Connection([h EXCEPT !.state = Connected]))
         ELSE h
    ELSE IF h.state.t = "Closing"
    THEN IF h.conn.state = "Closed" THEN [h EXCEPT !.state = Closed(h.state.code)] ELSE h
    ELSE h

(* handle_new_client_request *)
HandleNewClientRequest(h, stream_id) ==
    [h EXCEPT !.request_streams_server = MapPut(@, stream_id, RequestStreamServerNew)]

(* decode_new_stream that takes a stream of a type it does not know for  *)
(* an error of the connection                                            *)
DecodeNewStreamUnknownFatal(h, stream_type, stream_id) ==
    CASE stream_type = HTTP3_UNI_STREAM_TYPE_CONTROL ->
            With(AddRemoteStream(h.control_stream_remote, stream_id), LAMBDA r :
               IF r.err # NoErr THEN Fail(h, r.err)
               ELSE [h EXCEPT !.control_stream_remote = r.cr])
      [] stream_type = HTTP3_UNI_STREAM_TYPE_PUSH ->
            IF h.role = "Server"
            THEN [h EXCEPT !.conn = StreamStopSending(@, stream_id, WrongStreamDirection)]
            ELSE [h EXCEPT !.conn = StreamStopSending(@, stream_id, PushRefused)]
      [] stream_type = QPACK_UNI_STREAM_TYPE_ENCODER ->
            IF QPackHasRecvStream(h.qpack_decoder) THEN Fail(h, WrongStreamCount)
            ELSE [h EXCEPT !.qpack_decoder = QPackAddRecvStream(@, stream_id),
                           !.streams_are_readable = @ \cup {stream_id}]
      [] stream_type = QPACK_UNI_STREAM_TYPE_DECODER ->
            IF QPackHasRecvStream(h.qpack_encoder) THEN Fail(h, WrongStreamCount)
            ELSE [h EXCEPT !.qpack_encoder = QPackAddRecvStream(@, stream_id),
                           !.streams_are_readable = @ \cup {stream_id}]
      [] OTHER -> Fail(h, UnknownStreamType)

(* decode_new_stream of a client that accepts push streams *)
DecodeNewStreamAcceptsPush(h, stream_type, stream_id) ==
    CASE stream_type = HTTP3_UNI_STREAM_TYPE_CONTROL ->
            With(AddRemoteStream(h.control_stream_remote, stream_id), LAMBDA r :
               IF r.err # NoErr THEN Fail(h, r.err)
               ELSE [h EXCEPT !.control_stream_remote = r.cr])
      [] stream_type = HTTP3_UNI_STREAM_TYPE_PUSH ->
            IF h.role = "Server"
            THEN [h EXCEPT !.conn = StreamStopSending(@, stream_id, WrongStreamDirection)]
            ELSE [h EXCEPT !.events = @ \cup {NewPushStream(stream_id)}]
      [] stream_type = QPACK_UNI_STREAM_TYPE_ENCODER ->
            IF QPackHasRecvStream(h.qpack_decoder) THEN Fail(h, WrongStreamCount)
            ELSE [h EXCEPT !.qpack_decoder = QPackAddRecvStream(@, stream_id),
                           !.streams_are_readable = @ \cup {stream_id}]
      [] stream_type = QPACK_UNI_STREAM_TYPE_DECODER ->
            IF QPackHasRecvStream(h.qpack_encoder) THEN Fail(h, WrongStreamCount)
            ELSE [h EXCEPT !.qpack_encoder = QPackAddRecvStream(@, stream_id),
                           !.streams_are_readable = @ \cup {stream_id}]
      [] OTHER ->
            [h EXCEPT !.conn = StreamStopSending(@, stream_id, UnknownStreamType)]

(* decode_new_stream *)
DecodeNewStream(h, stream_type, stream_id) ==
    CASE stream_type = HTTP3_UNI_STREAM_TYPE_CONTROL ->
            With(AddRemoteStream(h.control_stream_remote, stream_id), LAMBDA r :
               IF r.err # NoErr THEN Fail(h, r.err)
               ELSE [h EXCEPT !.control_stream_remote = r.cr])
      [] stream_type = HTTP3_UNI_STREAM_TYPE_PUSH ->
            IF h.role = "Server"
            THEN [h EXCEPT !.conn = StreamStopSending(@, stream_id, WrongStreamDirection)]
            ELSE [h EXCEPT !.conn = StreamStopSending(@, stream_id, PushRefused)]
      [] stream_type = QPACK_UNI_STREAM_TYPE_ENCODER ->
            IF QPackHasRecvStream(h.qpack_decoder) THEN Fail(h, WrongStreamCount)
            ELSE [h EXCEPT !.qpack_decoder = QPackAddRecvStream(@, stream_id),
                           !.streams_are_readable = @ \cup {stream_id}]
      [] stream_type = QPACK_UNI_STREAM_TYPE_DECODER ->
            IF QPackHasRecvStream(h.qpack_encoder) THEN Fail(h, WrongStreamCount)
            ELSE [h EXCEPT !.qpack_encoder = QPackAddRecvStream(@, stream_id),
                           !.streams_are_readable = @ \cup {stream_id}]
      [] OTHER ->
            [h EXCEPT !.conn = StreamStopSending(@, stream_id, UnknownStreamType)]

(* what get_type returned for a stream, kept in the order of the calls *)
LogType(h, stream_id, type) ==
    IF type = None THEN h
    ELSE [h EXCEPT !.log.types = Append(@, <<stream_id, type>>)]

(* handle_new_stream of a client that takes the bidirectional streams   *)
(* of the peer for requests                                              *)
HandleNewStreamClientAccepts(h, stream_id, bidi) ==
    IF bidi
    THEN HandleNewClientRequest(h, stream_id)
    ELSE With(IF stream_id \in DOMAIN h.new_streams THEN h.new_streams[stream_id]
                   ELSE NewStreamTypeReaderNew, LAMBDA ns :
         With(GetType(ns, h.conn, stream_id), LAMBDA r :
         With(LogType([h EXCEPT !.conn = r.conn,
                                     !.new_streams = MapPut(@, stream_id, r.ns)],
                           stream_id, r.type), LAMBDA h1 :
            IF r.ns.fin THEN [h1 EXCEPT !.new_streams = MapRemove(@, stream_id)]
            ELSE IF r.type # None
            THEN With(DecodeNewStream(h1, r.type, stream_id), LAMBDA h2 :
                    IF h2.err # NoErr THEN h2
                    ELSE [h2 EXCEPT !.new_streams = MapRemove(@, stream_id)])
            ELSE h1)))

(* handle_new_stream *)
HandleNewStream(h, stream_id, bidi) ==
    IF bidi
    THEN IF h.role = "Server" THEN HandleNewClientRequest(h, stream_id)
         ELSE [h EXCEPT !.conn = StreamStopSending(@, stream_id, 0)]
    ELSE With(IF stream_id \in DOMAIN h.new_streams THEN h.new_streams[stream_id]
                   ELSE NewStreamTypeReaderNew, LAMBDA ns :
         With(GetType(ns, h.conn, stream_id), LAMBDA r :
         With(LogType([h EXCEPT !.conn = r.conn,
                                     !.new_streams = MapPut(@, stream_id, r.ns)],
                           stream_id, r.type), LAMBDA h1 :
            IF r.ns.fin THEN [h1 EXCEPT !.new_streams = MapRemove(@, stream_id)]
            ELSE IF r.type # None
            THEN With(DecodeNewStream(h1, r.type, stream_id), LAMBDA h2 :
                    IF h2.err # NoErr THEN h2
                    ELSE [h2 EXCEPT !.new_streams = MapRemove(@, stream_id)])
            ELSE h1)))

(* handle_stream_reset *)
HandleStreamReset(h, stream_id, app_err) == h

(* handle_stream_stop_sending *)
HandleStreamStopSending(h, stream_id, app_err) == h

(* handle_stream_complete *)
HandleStreamComplete(h, stream_id) == h

(* handle_stream_creatable *)
HandleStreamCreatable(h, bidi) == h

(* connection_closed that adds the event to the pending ones *)
EventsConnectionClosedKeep(evs, error_code) == evs \cup {ConnectionClosed(error_code)}

(* Http3Events::connection_closed *)
EventsConnectionClosed(evs, error_code) == {ConnectionClosed(error_code)}

(* handle_connection_closed *)
HandleConnectionClosed(h, error_code) ==
    [h EXCEPT !.events = EventsConnectionClosed(@, error_code),
              !.state = Closed(error_code)]

(* handle_settings that lets a server store NumPlaceholders and stops    *)
(* at a setting it does not know                                         *)
RECURSIVE HandleSettingsLax(_, _)
HandleSettingsLax(h, settings) ==
    IF settings = <<>> THEN h
    ELSE LET t == Head(settings)[1]
             v == Head(settings)[2]
         IN IF t = SETTINGS_MAX_HEADER_LIST_SIZE
            THEN HandleSettingsLax([h EXCEPT !.max_header_list_size = v], Tail(settings))
            ELSE IF t = SETTINGS_NUM_PLACEHOLDERS
            THEN HandleSettingsLax([h EXCEPT !.num_placeholders = v], Tail(settings))
            ELSE IF t = SETTINGS_QPACK_MAX_TABLE_SIZE
            THEN HandleSettingsLax([h EXCEPT !.qpack_encoder.max_table_size = v],
                                   Tail(settings))
            ELSE IF t = SETTINGS_QPACK_BLOCKED_STREAMS
            THEN HandleSettingsLax([h EXCEPT !.qpack_encoder.max_blocked_streams = v],
                                   Tail(settings))
            ELSE h

(* handle_settings *)
RECURSIVE HandleSettings(_, _)
HandleSettings(h, settings) ==
    IF settings = <<>> THEN h
    ELSE LET t == Head(settings)[1]
             v == Head(settings)[2]
         IN IF t = SETTINGS_MAX_HEADER_LIST_SIZE
            THEN HandleSettings([h EXCEPT !.max_header_list_size = v], Tail(settings))
            ELSE IF t = SETTINGS_NUM_PLACEHOLDERS
            THEN IF h.role = "Server" THEN Fail(h, WrongStreamDirection)
                 ELSE HandleSettings([h EXCEPT !.num_placeholders = v], Tail(settings))
            ELSE IF t = SETTINGS_QPACK_MAX_TABLE_SIZE
            THEN HandleSettings([h EXCEPT !.qpack_encoder.max_table_size = v], Tail(settings))
            ELSE IF t = SETTINGS_QPACK_BLOCKED_STREAMS
            THEN HandleSettings([h EXCEPT !.qpack_encoder.max_blocked_streams = v],
                                Tail(settings))
            ELSE HandleSettings(h, Tail(settings))

(* the filter handle_goaway applies to the pending events *)
GoawayKeepsEvent(evt, goaway_stream_id) ==
    IF evt.e \in {"HeaderReady", "DataReadable", "NewPushStream"}
    THEN evt.id < goaway_stream_id
    ELSE TRUE

(* handle_goaway that drops the streams but leaves the pending events    *)
(* as they are                                                           *)
HandleGoawayKeepEvents(h, goaway_stream_id) ==
    IF h.role = "Server" THEN Fail(h, UnexpectedFrame)
    ELSE [h EXCEPT
            !.events = @ \cup {RequestClosed(id, NetReset) :
                                 id \in {i \in DOMAIN h.request_streams_client :
                                           i >= goaway_stream_id}},
            !.request_streams_client =
                [id \in {i \in DOMAIN @ : i < goaway_stream_id} |-> @[id]],
            !.state = IF h.state = Connected THEN GoingAway ELSE @,
            !.log.goaways = Append(@, goaway_stream_id)]

(* handle_goaway that a server follows as a client does *)
HandleGoawayAnyRole(h, goaway_stream_id) ==
    [h EXCEPT
       !.events = {evt \in @ \cup {RequestClosed(id, NetReset) :
                                     id \in {i \in DOMAIN h.request_streams_client :
                                               i >= goaway_stream_id}} :
                     GoawayKeepsEvent(evt, goaway_stream_id)},
       !.request_streams_client =
           [id \in {i \in DOMAIN @ : i < goaway_stream_id} |-> @[id]],
       !.state = IF h.state = Connected THEN GoingAway ELSE @,
       !.log.goaways = Append(@, goaway_stream_id)]

(* handle_goaway *)
HandleGoaway(h, goaway_stream_id) ==
    IF h.role = "Server" THEN Fail(h, UnexpectedFrame)
    ELSE [h EXCEPT
            !.events = {evt \in @ \cup {RequestClosed(id, NetReset) :
                                          id \in {i \in DOMAIN h.request_streams_client :
                                                    i >= goaway_stream_id}} :
                          GoawayKeepsEvent(evt, goaway_stream_id)},
            !.request_streams_client =
                [id \in {i \in DOMAIN @ : i < goaway_stream_id} |-> @[id]],
            !.state = IF h.state = Connected THEN GoingAway ELSE @,
            !.log.goaways = Append(@, goaway_stream_id)]

(* handle_max_push_id *)
HandleMaxPushId(h, id) ==
    IF h.role = "Client" THEN Fail(h, UnexpectedFrame) ELSE h

(* handle_control_frame that lets any frame be the first one *)
HandleControlFrameAnyFirst(h) ==
    IF h.control_stream_remote.fin THEN Fail(h, ClosedCriticalStream)
    ELSE IF FrameDone(h.control_stream_remote.frame_reader)
    THEN With(GetFrame(h.control_stream_remote.frame_reader), LAMBDA f :
         With([h EXCEPT !.control_stream_remote.frame_reader = <<>>,
                             !.log.ctrl_frames = Append(@, f.type)], LAMBDA h1 :
            IF f.type = H3_FRAME_TYPE_SETTINGS /\ h.settings_received
            THEN Fail(h1, UnexpectedFrame)
            ELSE CASE f.type = H3_FRAME_TYPE_SETTINGS ->
                        HandleSettings([h1 EXCEPT !.settings_received = TRUE], f.settings)
                   [] f.type = H3_FRAME_TYPE_PRIORITY -> h1
                   [] f.type = H3_FRAME_TYPE_CANCEL_PUSH -> h1
                   [] f.type = H3_FRAME_TYPE_GOAWAY -> HandleGoaway(h1, f.id)
                   [] f.type = H3_FRAME_TYPE_MAX_PUSH_ID -> HandleMaxPushId(h1, f.id)
                   [] OTHER -> Fail(h1, WrongStream)))
    ELSE h

(* handle_control_frame that accepts SETTINGS every time *)
HandleControlFrameSettingsAgain(h) ==
    IF h.control_stream_remote.fin THEN Fail(h, ClosedCriticalStream)
    ELSE IF FrameDone(h.control_stream_remote.frame_reader)
    THEN With(GetFrame(h.control_stream_remote.frame_reader), LAMBDA f :
         With([h EXCEPT !.control_stream_remote.frame_reader = <<>>,
                             !.log.ctrl_frames = Append(@, f.type)], LAMBDA h1 :
            IF f.type # H3_FRAME_TYPE_SETTINGS /\ ~h.settings_received
            THEN Fail(h1, MissingSettings)
            ELSE CASE f.type = H3_FRAME_TYPE_SETTINGS ->
                        HandleSettings([h1 EXCEPT !.settings_received = TRUE], f.settings)
                   [] f.type = H3_FRAME_TYPE_PRIORITY -> h1
                   [] f.type = H3_FRAME_TYPE_CANCEL_PUSH -> h1
                   [] f.type = H3_FRAME_TYPE_GOAWAY -> HandleGoaway(h1, f.id)
                   [] f.type = H3_FRAME_TYPE_MAX_PUSH_ID -> HandleMaxPushId(h1, f.id)
                   [] OTHER -> Fail(h1, WrongStream)))
    ELSE h

(* handle_control_frame that reports the end of the stream as a frame   *)
(* error                                                                *)
HandleControlFrameFinAsFrameError(h) ==
    IF h.control_stream_remote.fin THEN Fail(h, UnexpectedFrame)
    ELSE IF FrameDone(h.control_stream_remote.frame_reader)
    THEN With(GetFrame(h.control_stream_remote.frame_reader), LAMBDA f :
         With([h EXCEPT !.control_stream_remote.frame_reader = <<>>,
                             !.log.ctrl_frames = Append(@, f.type)], LAMBDA h1 :
            IF f.type = H3_FRAME_TYPE_SETTINGS /\ h.settings_received
            THEN Fail(h1, UnexpectedFrame)
            ELSE IF f.type # H3_FRAME_TYPE_SETTINGS /\ ~h.settings_received
            THEN Fail(h1, MissingSettings)
            ELSE CASE f.type = H3_FRAME_TYPE_SETTINGS ->
                        HandleSettings([h1 EXCEPT !.settings_received = TRUE], f.settings)
                   [] f.type = H3_FRAME_TYPE_PRIORITY -> h1
                   [] f.type = H3_FRAME_TYPE_CANCEL_PUSH -> h1
                   [] f.type = H3_FRAME_TYPE_GOAWAY -> HandleGoaway(h1, f.id)
                   [] f.type = H3_FRAME_TYPE_MAX_PUSH_ID -> HandleMaxPushId(h1, f.id)
                   [] OTHER -> Fail(h1, WrongStream)))
    ELSE h

(* handle_control_frame that lets the frames of request streams pass    *)
(* on the control stream                                                 *)
HandleControlFrameLenient(h) ==
    IF h.control_stream_remote.fin THEN Fail(h, ClosedCriticalStream)
    ELSE IF FrameDone(h.control_stream_remote.frame_reader)
    THEN With(GetFrame(h.control_stream_remote.frame_reader), LAMBDA f :
         With([h EXCEPT !.control_stream_remote.frame_reader = <<>>,
                             !.log.ctrl_frames = Append(@, f.type)], LAMBDA h1 :
            IF f.type = H3_FRAME_TYPE_SETTINGS /\ h.settings_received
            THEN Fail(h1, UnexpectedFrame)
            ELSE IF f.type # H3_FRAME_TYPE_SETTINGS /\ ~h.settings_received
            THEN Fail(h1, MissingSettings)
            ELSE CASE f.type = H3_FRAME_TYPE_SETTINGS ->
                        HandleSettings([h1 EXCEPT !.settings_received = TRUE], f.settings)
                   [] f.type = H3_FRAME_TYPE_PRIORITY -> h1
                   [] f.type = H3_FRAME_TYPE_CANCEL_PUSH -> h1
                   [] f.type = H3_FRAME_TYPE_GOAWAY -> HandleGoaway(h1, f.id)
                   [] f.type = H3_FRAME_TYPE_MAX_PUSH_ID -> HandleMaxPushId(h1, f.id)
                   [] f.type \in {H3_FRAME_TYPE_HEADERS, H3_FRAME_TYPE_PUSH_PROMISE} -> h1
                   [] OTHER -> Fail(h1, WrongStream)))
    ELSE h

(* handle_control_frame that takes PRIORITY and CANCEL_PUSH for frames   *)
(* of another stream                                                     *)
HandleControlFrameStrict(h) ==
    IF h.control_stream_remote.fin THEN Fail(h, ClosedCriticalStream)
    ELSE IF FrameDone(h.control_stream_remote.frame_reader)
    THEN With(GetFrame(h.control_stream_remote.frame_reader), LAMBDA f :
         With([h EXCEPT !.control_stream_remote.frame_reader = <<>>,
                             !.log.ctrl_frames = Append(@, f.type)], LAMBDA h1 :
            IF f.type = H3_FRAME_TYPE_SETTINGS /\ h.settings_received
            THEN Fail(h1, UnexpectedFrame)
            ELSE IF f.type # H3_FRAME_TYPE_SETTINGS /\ ~h.settings_received
            THEN Fail(h1, MissingSettings)
            ELSE CASE f.type = H3_FRAME_TYPE_SETTINGS ->
                        HandleSettings([h1 EXCEPT !.settings_received = TRUE], f.settings)
                   [] f.type = H3_FRAME_TYPE_GOAWAY -> HandleGoaway(h1, f.id)
                   [] f.type = H3_FRAME_TYPE_MAX_PUSH_ID -> HandleMaxPushId(h1, f.id)
                   [] OTHER -> Fail(h1, WrongStream)))
    ELSE h

(* handle_control_frame *)
HandleControlFrame(h) ==
    IF h.control_stream_remote.fin THEN Fail(h, ClosedCriticalStream)
    ELSE IF FrameDone(h.control_stream_remote.frame_reader)
    THEN With(GetFrame(h.control_stream_remote.frame_reader), LAMBDA f :
         With([h EXCEPT !.control_stream_remote.frame_reader = <<>>,
                             !.log.ctrl_frames = Append(@, f.type)], LAMBDA h1 :
            IF f.type = H3_FRAME_TYPE_SETTINGS /\ h.settings_received
            THEN Fail(h1, UnexpectedFrame)
            ELSE IF f.type # H3_FRAME_TYPE_SETTINGS /\ ~h.settings_received
            THEN Fail(h1, MissingSettings)
            ELSE CASE f.type = H3_FRAME_TYPE_SETTINGS ->
                        HandleSettings([h1 EXCEPT !.settings_received = TRUE], f.settings)
                   [] f.type = H3_FRAME_TYPE_PRIORITY -> h1
                   [] f.type = H3_FRAME_TYPE_CANCEL_PUSH -> h1
                   [] f.type = H3_FRAME_TYPE_GOAWAY -> HandleGoaway(h1, f.id)
                   [] f.type = H3_FRAME_TYPE_MAX_PUSH_ID -> HandleMaxPushId(h1, f.id)
                   [] OTHER -> Fail(h1, WrongStream)))
    ELSE h

(* read_stream_client that returns every error of the transaction to    *)
(* its caller                                                            *)
ReadStreamClientFatal(h, stream_id, unblocked) ==
    IF h.role # "Client" THEN [found |-> FALSE, h |-> h]
    ELSE IF stream_id \in DOMAIN h.request_streams_client
    THEN With(ClientReceive(h, stream_id), LAMBDA res :
            IF res.err # NoErr
            THEN [found |-> TRUE, h |-> res]
            ELSE IF res.request_streams_client[stream_id].done
            THEN [found |-> TRUE,
                  h |-> [res EXCEPT !.request_streams_client = MapRemove(@, stream_id)]]
            ELSE [found |-> TRUE, h |-> res])
    ELSE [found |-> FALSE, h |-> h]

(* read_stream_client: [found, h] *)
ReadStreamClient(h, stream_id, unblocked) ==
    IF h.role # "Client" THEN [found |-> FALSE, h |-> h]
    ELSE IF stream_id \in DOMAIN h.request_streams_client
    THEN With(ClientReceive(h, stream_id), LAMBDA res :
            IF res.err # NoErr
            THEN IF IsStreamError(res.err)
                 THEN [found |-> TRUE,
                       h |-> [res EXCEPT !.err = NoErr,
                                         !.request_streams_client = MapRemove(@, stream_id),
                                         !.conn = StreamStopSending(@, stream_id, res.err)]]
                 ELSE [found |-> TRUE, h |-> res]
            ELSE IF res.request_streams_client[stream_id].done
            THEN [found |-> TRUE,
                  h |-> [res EXCEPT !.request_streams_client = MapRemove(@, stream_id)]]
            ELSE [found |-> TRUE, h |-> res])
    ELSE [found |-> FALSE, h |-> h]

(* the application's request handler is called for a stream *)
CallHandler(h, stream_id) == [h EXCEPT !.log.handler_calls = Append(@, stream_id)]

(* read_stream_server: [found, h] *)
ReadStreamServer(h, stream_id, unblocked) ==
    IF h.role # "Server" THEN [found |-> FALSE, h |-> h]
    ELSE IF stream_id \in DOMAIN h.request_streams_server
    THEN With(ServerReceive(h.request_streams_server[stream_id], h.conn, stream_id), LAMBDA res :
         With([h EXCEPT !.conn = res.conn,
                             !.request_streams_server[stream_id] = res.rs], LAMBDA h1 :
         With(IF res.err # NoErr
                   THEN [h1 EXCEPT
                           !.request_streams_client =
                               [i \in DOMAIN @ \ {stream_id} |-> @[i]],
                           !.conn = StreamStopSending(@, stream_id, res.err)]
                   ELSE h1, LAMBDA h2 :
            IF res.err # NoErr /\ ~IsStreamError(res.err)
            THEN [found |-> TRUE, h |-> Fail(h1, res.err)]
            ELSE IF ServerDoneReadingRequest(res.rs)
            THEN With([CallHandler(h2, stream_id) EXCEPT
                              !.request_streams_server[stream_id] =
                                  ServerSetResponse(@, ResponseHeaderBlock, ResponseBody)], LAMBDA h3 :
                    IF ServerHasDataToSend(h3.request_streams_server[stream_id])
                    THEN [found |-> TRUE,
                          h |-> [h3 EXCEPT !.streams_have_data_to_send = @ \cup {stream_id}]]
                    ELSE [found |-> TRUE,
                          h |-> [h3 EXCEPT !.request_streams_client =
                                               [i \in DOMAIN @ \ {stream_id} |-> @[i]]]])
            ELSE [found |-> TRUE, h |-> h2])))
    ELSE [found |-> FALSE, h |-> h]

(* the loop of handle_stream_readable over the frames of the remote      *)
(* control stream                                                        *)
RECURSIVE ControlFrameLoop(_, _)
ControlFrameLoop(h, stream_id) ==
    IF FrameDone(h.control_stream_remote.frame_reader) \/ h.control_stream_remote.fin
    THEN With(HandleControlFrame(h), LAMBDA h1 :
         With(ReceiveIfThisStream(h1.control_stream_remote, h1.conn, stream_id), LAMBDA r :
            IF h1.err # NoErr THEN h1
            ELSE IF r.err # NoErr THEN Fail(h1, r.err)
            ELSE ControlFrameLoop([h1 EXCEPT !.control_stream_remote = r.cr,
                                             !.conn = r.conn], stream_id)))
    ELSE h

(* handle_stream_readable that fails on a stream nobody owns *)
HandleStreamReadableStrict(h, stream_id) ==
    With(ReadStreamClient(h, stream_id, FALSE), LAMBDA rc :
    With(ReadStreamServer(h, stream_id, FALSE), LAMBDA rsv :
    With(ReceiveIfThisStream(h.control_stream_remote, h.conn, stream_id), LAMBDA r :
       IF rc.found THEN rc.h
       ELSE IF rsv.found THEN rsv.h
       ELSE IF r.err # NoErr THEN Fail(h, r.err)
       ELSE IF r.matched
       THEN ControlFrameLoop([h EXCEPT !.control_stream_remote = r.cr, !.conn = r.conn],
                             stream_id)
       ELSE IF QPackIsRecvStream(h.qpack_encoder, stream_id)
       THEN With(QPackReceive(h.conn, stream_id), LAMBDA q :
               IF q.err # NoErr THEN Fail([h EXCEPT !.conn = q.conn], q.err)
               ELSE [h EXCEPT !.conn = q.conn])
       ELSE IF QPackIsRecvStream(h.qpack_decoder, stream_id)
       THEN With(QPackReceive(h.conn, stream_id), LAMBDA q :
               IF q.err # NoErr THEN Fail([h EXCEPT !.conn = q.conn], q.err)
               ELSE [h EXCEPT !.conn = q.conn])
       ELSE IF stream_id \in DOMAIN h.new_streams
       THEN With(GetType(h.new_streams[stream_id], h.conn, stream_id), LAMBDA g :
            With(LogType([h EXCEPT !.conn = g.conn,
                                        !.new_streams[stream_id] = g.ns],
                              stream_id, g.type), LAMBDA h1 :
            With(IF g.ns.fin THEN [h1 EXCEPT !.new_streams = MapRemove(@, stream_id)]
                      ELSE h1, LAMBDA h2 :
               IF g.type # None
               THEN With(DecodeNewStream(h2, g.type, stream_id), LAMBDA h3 :
                       IF h3.err # NoErr THEN h3
                       ELSE [h3 EXCEPT !.new_streams = MapRemove(@, stream_id)])
               ELSE h2)))
       ELSE Fail(h, WrongStream))))

(* handle_stream_readable *)
HandleStreamReadable(h, stream_id) ==
    With(ReadStreamClient(h, stream_id, FALSE), LAMBDA rc :
    With(ReadStreamServer(h, stream_id, FALSE), LAMBDA rsv :
    With(ReceiveIfThisStream(h.control_stream_remote, h.conn, stream_id), LAMBDA r :
       IF rc.found THEN rc.h
       ELSE IF rsv.found THEN rsv.h
       ELSE IF r.err # NoErr THEN Fail(h, r.err)
       ELSE IF r.matched
       THEN ControlFrameLoop([h EXCEPT !.control_stream_remote = r.cr, !.conn = r.conn],
                             stream_id)
       ELSE IF QPackIsRecvStream(h.qpack_encoder, stream_id)
       THEN With(QPackReceive(h.conn, stream_id), LAMBDA q :
               IF q.err # NoErr THEN Fail([h EXCEPT !.conn = q.conn], q.err)
               ELSE [h EXCEPT !.conn = q.conn])
       ELSE IF QPackIsRecvStream(h.qpack_decoder, stream_id)
       THEN With(QPackReceive(h.conn, stream_id), LAMBDA q :
               IF q.err # NoErr THEN Fail([h EXCEPT !.conn = q.conn], q.err)
               ELSE [h EXCEPT !.conn = q.conn])
       ELSE IF stream_id \in DOMAIN h.new_streams
       THEN With(GetType(h.new_streams[stream_id], h.conn, stream_id), LAMBDA g :
            With(LogType([h EXCEPT !.conn = g.conn,
                                        !.new_streams[stream_id] = g.ns],
                              stream_id, g.type), LAMBDA h1 :
            With(IF g.ns.fin THEN [h1 EXCEPT !.new_streams = MapRemove(@, stream_id)]
                      ELSE h1, LAMBDA h2 :
               IF g.type # None
               THEN With(DecodeNewStream(h2, g.type, stream_id), LAMBDA h3 :
                       IF h3.err # NoErr THEN h3
                       ELSE [h3 EXCEPT !.new_streams = MapRemove(@, stream_id)])
               ELSE h2)))
       ELSE h)))

(* one arm of the match in check_connection_events *)
HandleConnectionEvent(h, ev) ==
    CASE ev.e = "NewStream" -> HandleNewStream(h, ev.id, ev.bidi)
      [] ev.e = "SendStreamWritable" -> h
      [] ev.e = "RecvStreamReadable" ->
            [h EXCEPT !.streams_are_readable = @ \cup {ev.id}]
      [] ev.e = "RecvStreamReset" -> HandleStreamReset(h, ev.id, ev.code)
      [] ev.e = "SendStreamStopSending" -> HandleStreamStopSending(h, ev.id, ev.code)
      [] ev.e = "SendStreamComplete" -> HandleStreamComplete(h, ev.id)
      [] ev.e = "SendStreamCreatable" -> HandleStreamCreatable(h, ev.bidi)
      [] ev.e = "ConnectionClosed" -> HandleConnectionClosed(h, ev.code)
      [] OTHER -> h

RECURSIVE ConnectionEventsLoop(_, _)
ConnectionEventsLoop(h, evs) ==
    IF evs = <<>> THEN h
    ELSE With(HandleConnectionEvent(h, Head(evs)), LAMBDA h1 :
            IF h1.err # NoErr THEN h1 ELSE ConnectionEventsLoop(h1, Tail(evs)))

(* check_connection_events: conn.events() hands over the pending events *)
CheckConnectionEvents(h) ==
    ConnectionEventsLoop([h EXCEPT !.conn.events = <<>>], h.conn.events)

RECURSIVE ReadingLoop(_, _)
ReadingLoop(h, readable) ==
    IF readable = <<>> THEN h
    ELSE With(HandleStreamReadable(h, Head(readable)), LAMBDA h1 :
            IF h1.err # NoErr THEN h1 ELSE ReadingLoop(h1, Tail(readable)))

(* process_reading that empties the readable set when the streams have   *)
(* been served                                                           *)
ProcessReadingDrainsLast(h) ==
    With(ReadingLoop(h, SortedSeq(h.streams_are_readable)), LAMBDA h1 :
       IF h1.err # NoErr THEN h1 ELSE [h1 EXCEPT !.streams_are_readable = {}])

(* process_reading: the readable set is taken and served in ascending order *)
ProcessReading(h) ==
    ReadingLoop([h EXCEPT !.streams_are_readable = {}], SortedSeq(h.streams_are_readable))

RECURSIVE SendingLoopClient(_, _)
SendingLoopClient(h, to_send) ==
    IF to_send = <<>> THEN h
    ELSE LET stream_id == Head(to_send)
         IN IF stream_id \in DOMAIN h.request_streams_client
            THEN With(ClientSend(h.request_streams_client[stream_id], h.conn, stream_id), LAMBDA r :
                 With([h EXCEPT !.conn = r.conn,
                                     !.request_streams_client[stream_id] = r.rs], LAMBDA h1 :
                    IF r.err # NoErr THEN Fail(h, r.err)
                    ELSE IF ClientHasDataToSend(r.rs)
                    THEN SendingLoopClient(
                           [h1 EXCEPT !.streams_have_data_to_send = @ \cup {stream_id}],
                           Tail(to_send))
                    ELSE SendingLoopClient(h1, Tail(to_send))))
            ELSE SendingLoopClient(h, Tail(to_send))

RECURSIVE SendingLoopServer(_, _)
SendingLoopServer(h, to_send) ==
    IF to_send = <<>> THEN h
    ELSE LET stream_id == Head(to_send)
         IN IF stream_id \in DOMAIN h.request_streams_server
            THEN With(ServerSend(h.request_streams_server[stream_id], h.conn, stream_id), LAMBDA r :
                 With([h EXCEPT !.conn = r.conn,
                                     !.request_streams_server[stream_id] = r.rs], LAMBDA h1 :
                    IF r.err # NoErr THEN Fail(h, r.err)
                    ELSE IF ServerHasDataToSend(r.rs)
                    THEN SendingLoopServer(
                           [h1 EXCEPT !.streams_have_data_to_send = @ \cup {stream_id}],
                           Tail(to_send))
                    ELSE SendingLoopServer(
                           [h1 EXCEPT !.request_streams_server = MapRemove(@, stream_id)],
                           Tail(to_send))))
            ELSE SendingLoopServer(h, Tail(to_send))

(* process_sending *)
ProcessSending(h) ==
    With(LocalSend(h.control_stream_local, h.conn), LAMBDA l :
    With([h EXCEPT !.control_stream_local = l.cl, !.conn = l.conn,
                        !.streams_have_data_to_send = {}], LAMBDA h1 :
    With(SortedSeq(h.streams_have_data_to_send), LAMBDA to_send :
    With(IF h.role = "Client" THEN SendingLoopClient(h1, to_send)
              ELSE SendingLoopServer(h1, to_send), LAMBDA h2 :
    With(QPackSend(h2.qpack_decoder, h2.conn), LAMBDA d :
    With(QPackSend(h2.qpack_encoder, d.conn), LAMBDA e :
       IF l.err # NoErr THEN Fail(h, l.err)
       ELSE IF h2.err # NoErr THEN h2
       ELSE IF d.err # NoErr THEN Fail(h2, d.err)
       ELSE IF e.err # NoErr
       THEN Fail([h2 EXCEPT !.qpack_decoder = d.q, !.conn = d.conn], e.err)
       ELSE [h2 EXCEPT !.qpack_decoder = d.q, !.qpack_encoder = e.q, !.conn = e.conn]))))))

(* process_http3 that runs the passes that are left after an error and  *)
(* closes with the first error                                           *)
ProcessHttp3GoesOn(h) ==
    IF h.state \in {Connected, GoingAway}
    THEN With(CheckConnectionEvents(h), LAMBDA h1 :
         With(ProcessReading([h1 EXCEPT !.err = NoErr]), LAMBDA h2 :
         With(ProcessSending([h2 EXCEPT !.err = NoErr]), LAMBDA h3 :
            IF h1.err # NoErr THEN CheckResult(Fail(h3, h1.err))
            ELSE IF h2.err # NoErr THEN CheckResult(Fail(h3, h2.err))
            ELSE CheckResult(h3))))
    ELSE h

(* process_http3 *)
ProcessHttp3(h) ==
    IF h.state \in {Connected, GoingAway}
    THEN With(CheckConnectionEvents(h), LAMBDA h1 :
         With(ProcessReading(h1), LAMBDA h2 :
         With(ProcessSending(h2), LAMBDA h3 :
            IF h1.err # NoErr THEN CheckResult(h1)
            ELSE IF h2.err # NoErr THEN CheckResult(h2)
            ELSE CheckResult(h3))))
    ELSE h

(* fetch: [err, id, h] *)
Fetch(h) ==
    With(StreamCreate(h.conn, h.role, TRUE), LAMBDA r :
       IF r.err # NoErr THEN [err |-> r.err, id |-> None, h |-> h]
       ELSE [err |-> NoErr, id |-> r.id,
             h |-> [h EXCEPT !.conn = r.conn,
                             !.request_streams_client =
                                 MapPut(@, r.id, RequestStreamClientNew),
                             !.streams_have_data_to_send = @ \cup {r.id}]])

(* get_headers: [err, headers] *)
GetHeaders(h, stream_id) ==
    IF stream_id \in DOMAIN h.request_streams_client
    THEN [err |-> "", has |-> h.request_streams_client[stream_id].has_headers,
          headers |-> h.request_streams_client[stream_id].headers]
    ELSE [err |-> "InvalidStreamId", has |-> FALSE, headers |-> <<>>]

(* read_data that takes a stream it does not know for a failed one *)
ReadDataUnknownFails(h, stream_id, buf_len) ==
    IF stream_id \in DOMAIN h.request_streams_client
    THEN With(ClientReadData(h.request_streams_client[stream_id], h.conn,
                                 stream_id, buf_len), LAMBDA r :
         With([h EXCEPT !.conn = r.conn, !.request_streams_client[stream_id] = r.rs], LAMBDA h1 :
         With(IF r.fin
                   THEN [h1 EXCEPT !.request_streams_client = MapRemove(@, stream_id)]
                   ELSE h1, LAMBDA h2 :
         With(IF r.amount > 0 /\ ~r.fin
                   THEN [h2 EXCEPT !.streams_are_readable = @ \cup {stream_id}]
                   ELSE h2, LAMBDA h3 :
            IF r.err # NoErr
            THEN [err |-> "ConnectionError", amount |-> 0, fin |-> FALSE,
                  h |-> Close(h1, r.err)]
            ELSE [err |-> "", amount |-> r.amount, fin |-> r.fin, h |-> h3]))))
    ELSE [err |-> "InvalidStreamId", amount |-> 0, fin |-> FALSE,
          h |-> [h EXCEPT !.streams_are_readable = @ \cup {stream_id}]]

(* read_data that keeps the stream after the read that returned fin *)
ReadDataKeepsStream(h, stream_id, buf_len) ==
    IF stream_id \in DOMAIN h.request_streams_client
    THEN With(ClientReadData(h.request_streams_client[stream_id], h.conn,
                                 stream_id, buf_len), LAMBDA r :
         With([h EXCEPT !.conn = r.conn, !.request_streams_client[stream_id] = r.rs], LAMBDA h1 :
         With(IF r.amount > 0 /\ ~r.fin
                   THEN [h1 EXCEPT !.streams_are_readable = @ \cup {stream_id}]
                   ELSE h1, LAMBDA h3 :
            IF r.err # NoErr
            THEN [err |-> "ConnectionError", amount |-> 0, fin |-> FALSE,
                  h |-> Close(h1, r.err)]
            ELSE [err |-> "", amount |-> r.amount, fin |-> r.fin, h |-> h3])))
    ELSE [err |-> "InvalidStreamId", amount |-> 0, fin |-> FALSE, h |-> h]

(* read_data that reports the error of the transaction and leaves the   *)
(* connection open                                                       *)
ReadDataNoClose(h, stream_id, buf_len) ==
    IF stream_id \in DOMAIN h.request_streams_client
    THEN With(ClientReadData(h.request_streams_client[stream_id], h.conn,
                                 stream_id, buf_len), LAMBDA r :
         With([h EXCEPT !.conn = r.conn, !.request_streams_client[stream_id] = r.rs], LAMBDA h1 :
         With(IF r.fin
                   THEN [h1 EXCEPT !.request_streams_client = MapRemove(@, stream_id)]
                   ELSE h1, LAMBDA h2 :
         With(IF r.amount > 0 /\ ~r.fin
                   THEN [h2 EXCEPT !.streams_are_readable = @ \cup {stream_id}]
                   ELSE h2, LAMBDA h3 :
            IF r.err # NoErr
            THEN [err |-> "ConnectionError", amount |-> 0, fin |-> FALSE, h |-> h1]
            ELSE [err |-> "", amount |-> r.amount, fin |-> r.fin, h |-> h3]))))
    ELSE [err |-> "InvalidStreamId", amount |-> 0, fin |-> FALSE, h |-> h]

(* read_data that never marks the stream readable again *)
ReadDataNoRemark(h, stream_id, buf_len) ==
    IF stream_id \in DOMAIN h.request_streams_client
    THEN With(ClientReadData(h.request_streams_client[stream_id], h.conn,
                                 stream_id, buf_len), LAMBDA r :
         With([h EXCEPT !.conn = r.conn, !.request_streams_client[stream_id] = r.rs], LAMBDA h1 :
         With(IF r.fin
                   THEN [h1 EXCEPT !.request_streams_client = MapRemove(@, stream_id)]
                   ELSE h1, LAMBDA h2 :
            IF r.err # NoErr
            THEN [err |-> "ConnectionError", amount |-> 0, fin |-> FALSE,
                  h |-> Close(h1, r.err)]
            ELSE [err |-> "", amount |-> r.amount, fin |-> r.fin, h |-> h2])))
    ELSE [err |-> "InvalidStreamId", amount |-> 0, fin |-> FALSE, h |-> h]

(* read_data: [err, amount, fin, h] *)
ReadData(h, stream_id, buf_len) ==
    IF stream_id \in DOMAIN h.request_streams_client
    THEN With(ClientReadData(h.request_streams_client[stream_id], h.conn,
                                 stream_id, buf_len), LAMBDA r :
         With([h EXCEPT !.conn = r.conn, !.request_streams_client[stream_id] = r.rs], LAMBDA h1 :
         With(IF r.fin
                   THEN [h1 EXCEPT !.request_streams_client = MapRemove(@, stream_id)]
                   ELSE h1, LAMBDA h2 :
         With(IF r.amount > 0 /\ ~r.fin
                   THEN [h2 EXCEPT !.streams_are_readable = @ \cup {stream_id}]
                   ELSE h2, LAMBDA h3 :
            IF r.err # NoErr
            THEN [err |-> "ConnectionError", amount |-> 0, fin |-> FALSE,
                  h |-> Close(h1, r.err)]
            ELSE [err |-> "", amount |-> r.amount, fin |-> r.fin, h |-> h3]))))
    ELSE [err |-> "InvalidStreamId", amount |-> 0, fin |-> FALSE, h |-> h]

(* the order BTreeSet<Http3Event> keeps: the variants in their order of  *)
(* declaration, then the fields                                          *)
EventVariant(evt) ==
    CASE evt.e = "HeaderReady" -> 0
      [] evt.e = "DataReadable" -> 1
      [] evt.e = "RequestClosed" -> 2
      [] evt.e = "NewPushStream" -> 3
      [] OTHER -> 4

EventLess(a, b) ==
    \/ EventVariant(a) < EventVariant(b)
    \/ /\ EventVariant(a) = EventVariant(b)
       /\ \/ a.id < b.id
          \/ a.id = b.id /\ a.code < b.code

RECURSIVE EventsInOrder(_)
EventsInOrder(S) ==
    IF S = {} THEN <<>>
    ELSE With(CHOOSE x \in S : \A y \in S \ {x} : EventLess(x, y), LAMBDA m :
            <<m>> \o EventsInOrder(S \ {m}))

(* events that returns the pending events and leaves them pending *)
EventsPeek(h) == [events |-> EventsInOrder(h.events), h |-> h]

(* events: [events, h] *)
Events(h) == [events |-> EventsInOrder(h.events), h |-> [h EXCEPT !.events = {}]]

(* ------------------------------------------------------------------ *)
(* What the remote endpoint sends                                      *)
(* ------------------------------------------------------------------ *)
SettingsBytes == EncodeSettingsFrame(<<<<SETTINGS_MAX_HEADER_LIST_SIZE, 5>>>>)

GoawayBytes == EncodeFrame(H3_FRAME_TYPE_GOAWAY, EncodeVarint(4))

PriorityBytes == EncodeFrame(H3_FRAME_TYPE_PRIORITY, <<0, 2, 1, 3>>)

HeadersBytes == EncodeFrame(H3_FRAME_TYPE_HEADERS, <<0>>)

DataBytes == EncodeFrame(H3_FRAME_TYPE_DATA, <<97, 98>>)

(* a DATA frame that announces three bytes and has two *)
TruncatedDataBytes == <<H3_FRAME_TYPE_DATA, 3, 97, 98>>

MaxPushIdBytes == EncodeFrame(H3_FRAME_TYPE_MAX_PUSH_ID, EncodeVarint(5))

CancelPushBytes == EncodeFrame(H3_FRAME_TYPE_CANCEL_PUSH, EncodeVarint(5))

ControlType == EncodeVarint(HTTP3_UNI_STREAM_TYPE_CONTROL)

PushType == EncodeVarint(HTTP3_UNI_STREAM_TYPE_PUSH)

(* a SETTINGS frame with every setting the connection knows and one it   *)
(* does not know                                                         *)
SettingsAll ==
    <<<<SETTINGS_MAX_HEADER_LIST_SIZE, 5>>, <<SETTINGS_NUM_PLACEHOLDERS, 3>>,
      <<SETTINGS_QPACK_MAX_TABLE_SIZE, 50>>, <<SETTINGS_QPACK_BLOCKED_STREAMS, 8>>,
      <<33, 1>>>>

SettingsAllBytes == EncodeSettingsFrame(SettingsAll)

(* a SETTINGS frame a server accepts: a setting it does not know, the    *)
(* QPACK settings and the size of the header list                        *)
SettingsQpack ==
    <<<<33, 1>>, <<SETTINGS_QPACK_MAX_TABLE_SIZE, 50>>,
      <<SETTINGS_QPACK_BLOCKED_STREAMS, 8>>, <<SETTINGS_MAX_HEADER_LIST_SIZE, 9>>>>

SettingsQpackBytes == EncodeSettingsFrame(SettingsQpack)

(* the frames that do not belong on a control stream: DATA, HEADERS,     *)
(* PUSH_PROMISE and DUPLICATE_PUSH                                       *)
WrongControlFrames ==
    {<<H3_FRAME_TYPE_DATA, 2, 1, 2>>, <<H3_FRAME_TYPE_HEADERS, 2, 1, 2>>,
     <<H3_FRAME_TYPE_PUSH_PROMISE, 2, 1, 2>>, <<H3_FRAME_TYPE_DUPLICATE_PUSH, 2, 1, 2>>}

(* a stream of a type that does not exist, the type written on two      *)
(* bytes, with the first bytes of what the stream carries                *)
UnknownTypeBytes == <<65, 25, 4, 4, 6, 0, 8, 0>>

(* The behaviours are explored in families; peer.scn names the family    *)
(* and fixes which bytes the remote endpoint chooses from.               *)
(*   "init": negotiation under every transport limit, one well-behaved   *)
(*           peer;                                                       *)
(*   "ctrl": the remote control stream and the QPACK streams;            *)
(*   "sig":  resets and stop-sending requests of the peer;               *)
(*   "req":  a client's requests, responses and GOAWAY;                  *)
(*   "read": a client's requests answered with frames that do not belong *)
(*           on a request stream or are cut short, and the application's *)
(*           reads;                                                      *)
(*   "type": peer streams of every type, push streams and types that do  *)
(*           not exist included, the type in one piece, in two, or after *)
(*           the stream was opened with nothing to read;                 *)
(*   "frame": every frame on the remote control stream after SETTINGS of *)
(*           several contents, in one piece or one byte for each tick,   *)
(*           with requests going on;                                     *)
(*   "disp": peer streams of every owner at once: request streams, the   *)
(*           control stream, both QPACK streams, a stream whose type is  *)
(*           still to come and streams that nobody owns.                 *)

(* first bytes of a new unidirectional stream *)
UniOpenChunks ==
    CASE peer.scn = "ctrl" ->
            {<<>>, ControlType, ControlType \o SettingsBytes, ControlType \o PriorityBytes,
             EncodeVarint(QPACK_UNI_STREAM_TYPE_ENCODER),
             EncodeVarint(QPACK_UNI_STREAM_TYPE_DECODER)}
      [] peer.scn = "sig" ->
            {ControlType \o SettingsBytes,
             EncodeVarint(QPACK_UNI_STREAM_TYPE_ENCODER),
             EncodeVarint(QPACK_UNI_STREAM_TYPE_DECODER)}
      [] peer.scn = "type" ->
            {<<>>, ControlType \o SettingsBytes, PushType, UnknownTypeBytes,
             SubSeq(UnknownTypeBytes, 1, 1), <<33>>,
             EncodeVarint(QPACK_UNI_STREAM_TYPE_ENCODER)}
      [] peer.scn = "disp" ->
            {ControlType \o SettingsBytes, EncodeVarint(QPACK_UNI_STREAM_TYPE_ENCODER),
             EncodeVarint(QPACK_UNI_STREAM_TYPE_DECODER), PushType,
             SubSeq(UnknownTypeBytes, 1, 1)}
      [] peer.scn = "frame" ->
            IF peer.uni_opened = 0
            THEN {ControlType \o SettingsBytes, ControlType \o SettingsAllBytes,
                  ControlType \o SettingsQpackBytes}
            ELSE {EncodeVarint(QPACK_UNI_STREAM_TYPE_ENCODER)}
      [] OTHER -> {ControlType \o SettingsBytes}

(* later bytes on a unidirectional stream *)
UniWriteChunks ==
    CASE peer.scn = "ctrl" ->
            {ControlType, SettingsBytes, GoawayBytes, PriorityBytes, DataBytes,
             <<H3_FRAME_TYPE_SETTINGS>>}
      [] peer.scn = "read" -> {PriorityBytes}
      [] peer.scn = "type" ->
            {SubSeq(UnknownTypeBytes, 2, 2), PriorityBytes,
             EncodeVarint(QPACK_UNI_STREAM_TYPE_ENCODER)}
      [] peer.scn = "disp" -> {SubSeq(UnknownTypeBytes, 2, 2), PriorityBytes}
      [] peer.scn = "frame" ->
            {GoawayBytes, MaxPushIdBytes, PriorityBytes, CancelPushBytes}
               \cup WrongControlFrames
      [] OTHER -> {GoawayBytes}

(* bytes on a bidirectional stream *)
BidiWriteChunks ==
    CASE peer.scn = "req" ->
            {HeadersBytes \o DataBytes, DataBytes, SettingsBytes}
      [] peer.scn = "read" ->
            {HeadersBytes \o DataBytes, SettingsBytes, GoawayBytes, MaxPushIdBytes,
             CancelPushBytes, PriorityBytes, TruncatedDataBytes}
      [] peer.scn = "srv" ->
            {HeadersBytes, HeadersBytes \o DataBytes, DataBytes, SettingsBytes}
      [] OTHER -> {HeadersBytes \o DataBytes}

(* the codes a closing peer or a failing transport reports *)
PeerCloseCodes == {7}

(* the codes the application closes with *)
AppCloseCodes == {HttpNoError}

(* the sizes of the buffers the application reads into *)
BufLens == {1, 100}

(* the transport parameters of the peer: how many unidirectional streams *)
(* the connection may open, and the initial send credit                  *)
UniLimits == {2, 4}

InitialCredits == {4, BigCredit}

IsBidi(id) == id % 4 < 2

IsLocal(id) == (id % 2 = 0) = (role = "Client")

(* ------------------------------------------------------------------ *)
(* Initial state: Http3Connection::new over a fresh transport          *)
(* ------------------------------------------------------------------ *)
InitWith(roles, limits, credits, scn) ==
    /\ state = Initializing
    /\ role \in roles
    /\ \E mu \in limits, cr \in credits :
         conn = [state |-> "Init", events |-> <<>>, recv |-> EmptyMap, sent |-> EmptyMap,
                 uni_created |-> 0, bidi_created |-> 0,
                 max_uni |-> mu, max_bidi |-> MaxLocalBidi, credit |-> cr,
                 stop_sending |-> {}, send_closed |-> {}, close_code |-> None]
    /\ max_header_list_size = MAX_HEADER_LIST_SIZE_DEFAULT
    /\ num_placeholders = NUM_PLACEHOLDERS_DEFAULT
    /\ control_stream_local = [stream_id |-> None, buf |-> <<>>]
    /\ control_stream_remote = [stream_id |-> None, frame_reader |-> <<>>, fin |-> FALSE]
    /\ new_streams = EmptyMap
    /\ qpack_encoder = QPackNew(0, 0)
    /\ qpack_decoder = QPackNew(QpackMaxTableSize, QpackMaxBlockedStreams)
    /\ settings_received = FALSE
    /\ streams_are_readable = {}
    /\ streams_have_data_to_send = {}
    /\ events = {}
    /\ request_streams_client = EmptyMap
    /\ request_streams_server = EmptyMap
    /\ peer = [scn |-> scn, uni_opened |-> 0, bidi_opened |-> 0, writes |-> 0,
               signals |-> 0, pending |-> 0, slow |-> <<>>]
    /\ log = [types |-> <<>>, ctrl_frames |-> <<>>, goaways |-> <<>>,
              handler_calls |-> <<>>, fetched |-> {}, fin_read |-> {},
              headers_got |-> {}, closed_delivered |-> {}, queued |-> <<>>,
              read_failed |-> {}, demo |-> "pre"]

Init == InitWith({"Client", "Server"}, UniLimits, InitialCredits, "init")

InitCtrl == InitWith({"Client", "Server"}, {3}, {BigCredit}, "ctrl")

InitSig == InitWith({"Client", "Server"}, {3}, {BigCredit}, "sig")

InitReq == InitWith({"Client"}, {3}, {BigCredit}, "req")

InitRead == InitWith({"Client"}, {3}, {BigCredit}, "read")

InitType == InitWith({"Client", "Server"}, {3}, {BigCredit}, "type")

InitFrame == InitWith({"Client", "Server"}, {3}, {BigCredit}, "frame")

InitDisp == InitWith({"Client", "Server"}, {3}, {BigCredit}, "disp")

InitSrv == InitWith({"Server"}, {3}, InitialCredits, "srv")

InitDemo == InitWith({"Client"}, UniLimits, InitialCredits, "demo")

(* ------------------------------------------------------------------ *)
(* process_input: the transport takes in what arrived, then            *)
(* check_state_change runs                                             *)
(* ------------------------------------------------------------------ *)
ProcessInput(c) == Commit(CheckStateChange([Self EXCEPT !.conn = c]))

(* one more input has been taken in since the last process_http3 *)
Arrived(p) == [p EXCEPT !.pending = @ + 1]

(* the handshake completes *)
InputHandshakeDone ==
    /\ conn.state = "Init"
    /\ ProcessInput([conn EXCEPT !.state = "Connected"])
    /\ UNCHANGED peer

(* the peer closes the connection, or the transport fails *)
InputPeerClose ==
    /\ conn.state \in {"Init", "Connected"}
    /\ \E code \in PeerCloseCodes :
         ProcessInput(TPush([conn EXCEPT !.state = "Closed"],
                            TEvent("ConnectionClosed", None, FALSE, code)))
    /\ peer' = Arrived(peer)

(* a close started by close() completes *)
InputClosed ==
    /\ conn.state = "Closing"
    /\ ProcessInput([conn EXCEPT !.state = "Closed"])
    /\ UNCHANGED peer

(* process_input is called and nothing has arrived *)
InputNothing ==
    /\ ProcessInput(conn)
    /\ UNCHANGED peer

(* the peer opens a unidirectional stream *)
InputNewUniStream ==
    /\ conn.state = "Connected"
    /\ peer.pending < MaxPending
    /\ peer.uni_opened < MaxPeerUni
    /\ \E chunk \in UniOpenChunks :
         With(StreamBase(PeerRole(role), FALSE) + 4 * peer.uni_opened, LAMBDA id :
         With([conn EXCEPT !.recv = MapPut(@, id, [data |-> chunk, fin |-> FALSE])], LAMBDA c1 :
         With(TPush(c1, TEvent("NewStream", id, FALSE, None)), LAMBDA c2 :
         With(IF chunk = <<>> THEN c2
                   ELSE TPush(c2, TEvent("RecvStreamReadable", id, FALSE, None)), LAMBDA c3 :
            ProcessInput(c3)))))
    /\ peer' = Arrived([peer EXCEPT !.uni_opened = @ + 1])

(* the peer opens a bidirectional stream *)
InputNewBidiStream ==
    /\ conn.state = "Connected"
    /\ peer.pending < MaxPending
    /\ peer.bidi_opened < MaxPeerBidi
    /\ \E chunk \in BidiWriteChunks :
         With(StreamBase(PeerRole(role), TRUE) + 4 * peer.bidi_opened, LAMBDA id :
         With([conn EXCEPT !.recv = MapPut(@, id, [data |-> chunk, fin |-> FALSE]),
                                !.sent = MapPut(@, id, <<>>)], LAMBDA c1 :
         With(TPush(c1, TEvent("NewStream", id, TRUE, None)), LAMBDA c2 :
         With(TPush(c2, TEvent("RecvStreamReadable", id, FALSE, None)), LAMBDA c3 :
            ProcessInput(c3)))))
    /\ peer' = Arrived([peer EXCEPT !.bidi_opened = @ + 1])

(* the streams the peer can write to: its own, and the request streams   *)
(* it has seen bytes of                                                  *)
PeerWritable ==
    {id \in DOMAIN conn.recv :
        /\ ~conn.recv[id].fin
        /\ (IsLocal(id) => conn.sent[id] # <<>>)}

(* more bytes arrive on a stream *)
InputStreamData ==
    /\ conn.state = "Connected"
    /\ peer.pending < MaxPending
    /\ peer.writes < MaxPeerWrites
    /\ \E id \in PeerWritable :
         \E chunk \in (IF IsBidi(id) THEN BidiWriteChunks ELSE UniWriteChunks) :
            ProcessInput(TPush([conn EXCEPT !.recv[id].data = @ \o chunk],
                               TEvent("RecvStreamReadable", id, FALSE, None)))
    /\ peer' = Arrived([peer EXCEPT !.writes = @ + 1])

(* the peer sends a frame on its first unidirectional stream one byte at *)
(* a time, each byte after process has run for the one before            *)
InputStreamByte ==
    /\ conn.state = "Connected"
    /\ peer.pending = 0
    /\ With(StreamBase(PeerRole(role), FALSE), LAMBDA id :
          /\ id \in DOMAIN conn.recv
          /\ ~conn.recv[id].fin
          /\ \E f \in (IF peer.slow = <<>> THEN WrongControlFrames ELSE {peer.slow}) :
                /\ peer.slow = <<>> => peer.writes < MaxPeerWrites
                /\ ProcessInput(TPush([conn EXCEPT !.recv[id].data = @ \o <<Head(f)>>],
                                      TEvent("RecvStreamReadable", id, FALSE, None)))
                /\ peer' = Arrived([peer EXCEPT !.slow = Tail(f),
                                                !.writes = IF peer.slow = <<>> THEN @ + 1
                                                           ELSE @]))

(* the peer finishes a stream *)
InputStreamFin ==
    /\ conn.state = "Connected"
    /\ peer.pending < MaxPending
    /\ \E id \in PeerWritable :
         ProcessInput(TPush([conn EXCEPT !.recv[id].fin = TRUE],
                            TEvent("RecvStreamReadable", id, FALSE, None)))
    /\ peer' = Arrived(peer)

(* the peer resets a stream it sends on *)
InputStreamReset ==
    /\ conn.state = "Connected"
    /\ peer.pending < MaxPending
    /\ peer.signals < MaxPeerSignals
    /\ \E id \in PeerWritable :
         ProcessInput(TPush(conn, TEvent("RecvStreamReset", id, FALSE, 0)))
    /\ peer' = Arrived([peer EXCEPT !.signals = @ + 1])

(* the transport reports a stream readable that has nothing new *)
InputStreamReadable ==
    /\ conn.state = "Connected"
    /\ peer.pending < MaxPending
    /\ peer.signals < MaxPeerSignals
    /\ \E id \in DOMAIN conn.recv :
         ProcessInput(TPush(conn, TEvent("RecvStreamReadable", id, FALSE, None)))
    /\ peer' = Arrived([peer EXCEPT !.signals = @ + 1])

(* the peer asks to stop sending on a stream the connection sends on *)
InputStopSending ==
    /\ conn.state = "Connected"
    /\ peer.pending < MaxPending
    /\ peer.signals < MaxPeerSignals
    /\ \E id \in DOMAIN conn.sent :
         ProcessInput(TPush(conn, TEvent("SendStreamStopSending", id, FALSE, 0)))
    /\ peer' = Arrived([peer EXCEPT !.signals = @ + 1])

(* the peer raises the send credit *)
InputMaxData ==
    /\ conn.state = "Connected"
    /\ conn.credit < BigCredit
    /\ ProcessInput([conn EXCEPT !.credit = BigCredit])
    /\ UNCHANGED peer

(* ------------------------------------------------------------------ *)
(* The calls of the application                                        *)
(* ------------------------------------------------------------------ *)
DoProcessHttp3 ==
    /\ Commit(ProcessHttp3(Self))
    /\ peer' = [peer EXCEPT !.pending = 0]

DoFetch ==
    /\ With(Fetch(Self), LAMBDA r :
          Commit(IF r.err = NoErr THEN [r.h EXCEPT !.log.fetched = @ \cup {r.id}] ELSE r.h))
    /\ UNCHANGED peer

LocalBidiIds == {StreamBase(role, TRUE) + 4 * i : i \in 0..(MaxLocalBidi - 1)}

DoReadData ==
    /\ \E id \in LocalBidiIds, n \in BufLens :
         With(ReadData(Self, id, n), LAMBDA r :
            Commit(IF r.err = "" /\ r.fin THEN [r.h EXCEPT !.log.fin_read = @ \cup {id}]
                   ELSE IF r.err = "ConnectionError"
                   THEN [r.h EXCEPT !.log.read_failed = @ \cup {id}]
                   ELSE r.h))
    /\ UNCHANGED peer

DoGetHeaders ==
    /\ \E id \in LocalBidiIds :
         With(GetHeaders(Self, id), LAMBDA r :
            Commit(IF r.err = "" /\ r.has THEN [Self EXCEPT !.log.headers_got = @ \cup {id}]
                   ELSE Self))
    /\ UNCHANGED peer

DoEvents ==
    /\ With(Events(Self), LAMBDA r :
          Commit([r.h EXCEPT !.log.closed_delivered =
                                 @ \cup {e.id : e \in {x \in Range(r.events) :
                                                          x.e = "RequestClosed"}}]))
    /\ UNCHANGED peer

DoClose ==
    /\ \E code \in AppCloseCodes : Commit(Close(Self, code))
    /\ UNCHANGED peer

Next ==
    \/ InputHandshakeDone
    \/ InputPeerClose
    \/ InputClosed
    \/ InputNothing
    \/ InputNewUniStream
    \/ InputStreamData
    \/ InputStreamFin
    \/ InputMaxData
    \/ DoProcessHttp3
    \/ DoFetch
    \/ DoClose

NextCtrl ==
    \/ InputHandshakeDone
    \/ InputPeerClose
    \/ InputClosed
    \/ InputNewUniStream
    \/ InputStreamData
    \/ InputStreamFin
    \/ DoProcessHttp3

NextSig ==
    \/ InputHandshakeDone
    \/ InputNewUniStream
    \/ InputNewBidiStream
    \/ InputStreamReset
    \/ InputStopSending
    \/ DoProcessHttp3
    \/ DoFetch
    \/ DoClose

NextReq ==
    \/ InputHandshakeDone
    \/ InputNewUniStream
    \/ InputStreamData
    \/ InputStreamFin
    \/ DoProcessHttp3
    \/ DoFetch
    \/ DoReadData
    \/ DoEvents

NextRead ==
    \/ InputHandshakeDone
    \/ InputClosed
    \/ InputNewUniStream
    \/ InputStreamData
    \/ InputStreamFin
    \/ DoProcessHttp3
    \/ DoFetch
    \/ DoReadData
    \/ DoGetHeaders

NextType ==
    \/ InputHandshakeDone
    \/ InputNewUniStream
    \/ InputStreamData
    \/ InputStreamFin
    \/ DoProcessHttp3

NextFrame ==
    \/ InputHandshakeDone
    \/ InputNewUniStream
    \/ InputNewBidiStream
    \/ InputStreamData
    \/ InputStreamByte
    \/ DoProcessHttp3
    \/ DoFetch

NextDisp ==
    \/ InputHandshakeDone
    \/ InputNewUniStream
    \/ InputNewBidiStream
    \/ InputStreamData
    \/ DoProcessHttp3
    \/ DoFetch

(* ------------------------------------------------------------------ *)
(* The demo client (neqo-client): client(), process_loop and its two    *)
(* handlers; log.demo is the place the program has reached              *)
(* ------------------------------------------------------------------ *)
(* the buffer PostConnectHandler reads the response into *)
DemoBufLen == 4000

(* PreConnectHandler::handle: TRUE keeps the loop going *)
PreConnectHandle(h) == h.state # Connected

(* process_loop with the PreConnectHandler returns: at the top of the    *)
(* loop the state is Closed, or the handler asks to leave; client() goes *)
(* on to fetch without looking at the state returned                     *)
DemoPreReturn ==
    /\ log.demo = "pre"
    /\ state.t = "Closed" \/ ~PreConnectHandle(Self)
    /\ Commit([Self EXCEPT !.log.demo = "fetch"])
    /\ UNCHANGED peer

(* process_loop with the PreConnectHandler goes round: a datagram is     *)
(* received and given to process_input                                   *)
DemoPreInput ==
    /\ log.demo = "pre"
    /\ state.t # "Closed"
    /\ PreConnectHandle(Self)
    /\ \/ InputHandshakeDone
       \/ InputPeerClose
       \/ InputClosed

(* client(): fetch(...).unwrap() *)
DemoFetch ==
    /\ log.demo = "fetch"
    /\ With(Fetch(Self), LAMBDA r :
          Commit(IF r.err = NoErr
                 THEN [r.h EXCEPT !.log.fetched = @ \cup {r.id}, !.log.demo = "post"]
                 ELSE [r.h EXCEPT !.log.demo = "panic"]))
    /\ UNCHANGED peer

(* the loop of PostConnectHandler::handle over the events:               *)
(* [go, panic, h], go being what handle returns                          *)
RECURSIVE PostConnectEvents(_, _)
PostConnectEvents(h, evs) ==
    IF evs = <<>> THEN [go |-> TRUE, panic |-> FALSE, h |-> h]
    ELSE IF Head(evs).e = "HeaderReady"
    THEN IF Head(evs).id \notin h.log.fetched
         THEN [go |-> FALSE, panic |-> FALSE, h |-> h]
         ELSE PostConnectEvents([h EXCEPT !.log.headers_got = @ \cup {Head(evs).id}],
                                Tail(evs))
    ELSE IF Head(evs).e = "DataReadable"
    THEN IF Head(evs).id \notin h.log.fetched
         THEN [go |-> FALSE, panic |-> FALSE, h |-> h]
         ELSE With(ReadData(h, Head(evs).id, DemoBufLen), LAMBDA r :
                 IF r.err # "" THEN [go |-> FALSE, panic |-> TRUE, h |-> r.h]
                 ELSE IF r.fin
                 THEN [go |-> FALSE, panic |-> FALSE, h |-> Close(r.h, HttpNoError)]
                 ELSE PostConnectEvents(r.h, Tail(evs)))
    ELSE PostConnectEvents(h, Tail(evs))

(* PostConnectHandler::handle: process_http3, then the events *)
PostConnectHandle(h) ==
    With(Events(ProcessHttp3(h)), LAMBDA ev : PostConnectEvents(ev.h, ev.events))

(* process_loop with the PostConnectHandler, from the top of the loop to *)
(* recv: it returns when the state is Closed or the handler asks to      *)
(* leave                                                                 *)
DemoPostHandle ==
    /\ log.demo = "post"
    /\ IF state.t = "Closed"
       THEN Commit([Self EXCEPT !.log.demo = "done"])
       ELSE With(PostConnectHandle(Self), LAMBDA r :
               Commit([r.h EXCEPT !.log.demo = IF r.panic THEN "panic"
                                                ELSE IF r.go THEN "post" ELSE "done"]))
    /\ peer' = [peer EXCEPT !.pending = 0]

(* process_loop with the PostConnectHandler goes round: a datagram is    *)
(* received and given to process_input                                   *)
DemoPostInput ==
    /\ log.demo = "post"
    /\ peer.pending = 0
    /\ \/ InputNewUniStream
       \/ InputStreamData
       \/ InputStreamFin
       \/ InputPeerClose
       \/ InputClosed

NextDemo ==
    \/ DemoPreReturn
    \/ DemoPreInput
    \/ DemoFetch
    \/ DemoPostHandle
    \/ DemoPostInput

NextSrv ==
    \/ InputHandshakeDone
    \/ InputNewBidiStream
    \/ InputStreamData
    \/ InputStreamFin
    \/ InputStreamReadable
    \/ DoProcessHttp3

Spec == Init /\ [][Next]_vars

SpecCtrl == InitCtrl /\ [][NextCtrl]_vars

SpecSig == InitSig /\ [][NextSig]_vars

SpecReq == InitReq /\ [][NextReq]_vars

SpecRead == InitRead /\ [][NextRead]_vars

SpecType == InitType /\ [][NextType]_vars

SpecFrame == InitFrame /\ [][NextFrame]_vars

SpecDisp == InitDisp /\ [][NextDisp]_vars

SpecSrv == InitSrv /\ [][NextSrv]_vars

SpecDemo == InitDemo /\ [][NextDemo]_vars

(* ------------------------------------------------------------------ *)
(* Properties                                                          *)
(* ------------------------------------------------------------------ *)
(* everything the connection has ever queued on its local control       *)
(* stream: what the transport took, then what is still buffered          *)
LocalControlBytes ==
    IF control_stream_local.stream_id = None THEN control_stream_local.buf
    ELSE conn.sent[control_stream_local.stream_id] \o control_stream_local.buf

(* the bytes of the initialisation: the stream type 0x00, then one       *)
(* SETTINGS frame with the two QPACK limits of the decoder               *)
InitBytes == <<0, 4, 6, 1, 64, 100, 7, 64, 100>>

(* C1: initialisation runs exactly once, on the edge from Initializing   *)
(* to Connected. Before it nothing is created or queued; from then on,   *)
(* in every state and after every operation, the local control stream    *)
(* is the first unidirectional stream of the role and has carried        *)
(* exactly 0x00 and one SETTINGS frame, the QPACK encoder and decoder    *)
(* send streams are the second and the third, and no further             *)
(* unidirectional stream is ever created.                                *)
C1_InitOnce ==
    LET base == StreamBase(role, FALSE)
    IN /\ state = Initializing =>
             /\ control_stream_local.stream_id = None
             /\ conn.uni_created = 0
       /\ LocalControlBytes =
             (IF control_stream_local.stream_id = None THEN <<>> ELSE InitBytes)
       /\ control_stream_local.stream_id \in {None, base}
       /\ qpack_encoder.send_stream \in {None, base + 4}
       /\ qpack_decoder.send_stream \in {None, base + 8}
       /\ conn.uni_created <= 3
       /\ state \in {Connected, GoingAway} =>
             /\ control_stream_local.stream_id = base
             /\ qpack_encoder.send_stream = base + 4
             /\ qpack_decoder.send_stream = base + 8
             /\ conn.uni_created = 3

(* C1 witness: a client that has sent all of its initialisation, made a  *)
(* request and been told to go away                                      *)
C1_Witness ==
    /\ state = GoingAway
    /\ log.fetched # {}
    /\ control_stream_local.stream_id # None
    /\ control_stream_local.buf = <<>>
    /\ conn.sent[control_stream_local.stream_id] = InitBytes

(* the tick serves the remote control stream and nothing else: every     *)
(* pending transport event and every readable stream is that stream      *)
QuietControlTick ==
    /\ \A i \in DOMAIN conn.events : conn.events[i].id = control_stream_remote'.stream_id
    /\ streams_are_readable \subseteq {control_stream_remote'.stream_id}

(* C2: for either role, when the first complete frame handled on the     *)
(* remote control stream is not SETTINGS, whatever its type, handling    *)
(* stops there and the connection is Closing with MissingSettings; when  *)
(* it is SETTINGS it is accepted: settings_received is set, the          *)
(* connection is not closed with MissingSettings, and the state stays    *)
(* Connected when nothing else is served in the tick.                    *)
C2_FirstControlFrame ==
    [][(log.ctrl_frames = <<>> /\ log.ctrl_frames' # <<>>) =>
         IF log.ctrl_frames'[1] # H3_FRAME_TYPE_SETTINGS
         THEN /\ state' = Closing(MissingSettings)
              /\ ~settings_received'
              /\ Len(log.ctrl_frames') = 1
         ELSE /\ settings_received'
              /\ state'.code # MissingSettings
              /\ (QuietControlTick /\ Len(log.ctrl_frames') = 1
                    /\ ~control_stream_remote'.fin => state' = Connected)]_vars

(* C2 witness: a server closed with MissingSettings after a DATA frame   *)
(* came first on the control stream                                      *)
C2_Witness ==
    /\ role = "Server"
    /\ state = Closed(MissingSettings)
    /\ log.ctrl_frames = <<H3_FRAME_TYPE_DATA>>

(* C3: for either role, settings_received never goes back to false, and  *)
(* a SETTINGS frame handled on the remote control stream after an        *)
(* earlier SETTINGS frame is the last frame handled and leaves the       *)
(* connection Closing with UnexpectedFrame.                              *)
C3_SettingsOnce ==
    [][/\ settings_received => settings_received'
       /\ \A i \in (Len(log.ctrl_frames) + 1)..Len(log.ctrl_frames') :
            (/\ log.ctrl_frames'[i] = H3_FRAME_TYPE_SETTINGS
             /\ \E j \in 1..(i - 1) : log.ctrl_frames'[j] = H3_FRAME_TYPE_SETTINGS)
            => /\ i = Len(log.ctrl_frames')
               /\ state' = Closing(UnexpectedFrame)]_vars

(* C3 witness: a client closed with UnexpectedFrame by a SETTINGS frame  *)
(* that followed SETTINGS and PRIORITY                                   *)
C3_Witness ==
    /\ role = "Client"
    /\ state = Closed(UnexpectedFrame)
    /\ log.ctrl_frames = <<H3_FRAME_TYPE_SETTINGS, H3_FRAME_TYPE_PRIORITY,
                           H3_FRAME_TYPE_SETTINGS>>

(* C4: for either role, the step in which the end of the remote control  *)
(* stream is observed leaves the connection Closing with                 *)
(* ClosedCriticalStream, whether or not a complete frame came with the   *)
(* end; from there the only change of state is to Closed with the same   *)
(* code, and it happens when the transport has closed.                   *)
C4_ControlStreamFin ==
    [][/\ (~control_stream_remote.fin /\ control_stream_remote'.fin)
            => /\ state \in {Connected, GoingAway}
               /\ state' = Closing(ClosedCriticalStream)
       /\ (state = Closing(ClosedCriticalStream) /\ state' # state)
            => /\ state' = Closed(ClosedCriticalStream)
               /\ conn'.state = "Closed"]_vars

(* C4 witness: closed with ClosedCriticalStream when the end of the      *)
(* control stream came together with a complete frame                    *)
C4_Witness ==
    /\ state = Closed(ClosedCriticalStream)
    /\ control_stream_remote.fin
    /\ FrameDone(control_stream_remote.frame_reader)

(* the remote stream bound for a stream type *)
BoundIn(cr, dec, enc, t) ==
    CASE t = HTTP3_UNI_STREAM_TYPE_CONTROL -> cr.stream_id
      [] t = QPACK_UNI_STREAM_TYPE_ENCODER -> dec.recv_stream
      [] t = QPACK_UNI_STREAM_TYPE_DECODER -> enc.recv_stream

BoundRemote(t) == BoundIn(control_stream_remote, qpack_decoder, qpack_encoder, t)

BoundRemoteNext(t) == BoundIn(control_stream_remote', qpack_decoder', qpack_encoder', t)

CriticalTypes ==
    {HTTP3_UNI_STREAM_TYPE_CONTROL, QPACK_UNI_STREAM_TYPE_ENCODER,
     QPACK_UNI_STREAM_TYPE_DECODER}

(* the stream that announced type t first *)
FirstOfType(types, t) ==
    types[MinOf({i \in DOMAIN types : types[i][2] = t})][1]

(* C6: a remote control, QPACK encoder or QPACK decoder stream, once     *)
(* bound, stays bound to the same stream id; when a peer stream          *)
(* announces one of these types and an earlier stream has announced it   *)
(* already, the announcement is the last one served, the connection is   *)
(* Closing with WrongStreamCount, and the type is still bound to the     *)
(* stream that announced it first.                                       *)
C6_OneRemoteStreamPerType ==
    [][/\ \A t \in CriticalTypes : BoundRemote(t) # None => BoundRemoteNext(t) = BoundRemote(t)
       /\ \A i \in (Len(log.types) + 1)..Len(log.types') :
            (/\ log.types'[i][2] \in CriticalTypes
             /\ \E j \in 1..(i - 1) : log.types'[j][2] = log.types'[i][2])
            => /\ i = Len(log.types')
               /\ state' = Closing(WrongStreamCount)
               /\ BoundRemoteNext(log.types'[i][2]) = FirstOfType(log.types', log.types'[i][2])
               /\ BoundRemoteNext(log.types'[i][2]) # log.types'[i][1]]_vars

(* C6 witness: a second stream announced as QPACK encoder stream closed  *)
(* the connection and the first one is still bound                       *)
C6_Witness ==
    /\ state = Closing(WrongStreamCount)
    /\ Len(log.types) = 2
    /\ log.types[1][2] = QPACK_UNI_STREAM_TYPE_ENCODER
    /\ log.types[2][2] = QPACK_UNI_STREAM_TYPE_ENCODER
    /\ qpack_decoder.recv_stream = log.types[1][1]

(* the transport events that report the reset of a remote critical       *)
(* stream or a stop-sending request on a local critical stream           *)
CriticalSignal(ev) ==
    \/ /\ ev.e = "RecvStreamReset"
       /\ ev.id \in {control_stream_remote.stream_id, qpack_encoder.recv_stream,
                     qpack_decoder.recv_stream}
    \/ /\ ev.e = "SendStreamStopSending"
       /\ ev.id \in {control_stream_local.stream_id, qpack_encoder.send_stream,
                     qpack_decoder.send_stream}

(* C5: when process_http3 takes from the transport nothing but reports   *)
(* of a reset of a remote critical stream or of a stop-sending request   *)
(* on a local critical stream, the connection is left Closing with       *)
(* ClosedCriticalStream.                                                 *)
C5_CriticalStreamSignal ==
    [][(/\ state \in {Connected, GoingAway}
        /\ conn.events # <<>>
        /\ conn'.events = <<>>
        /\ \A i \in DOMAIN conn.events : CriticalSignal(conn.events[i]))
         => state' = Closing(ClosedCriticalStream)]_vars

(* the events GOAWAY silences for the streams at or above its cutoff *)
SilencedByGoaway(evt, cutoff) ==
    evt.e \in {"HeaderReady", "DataReadable", "NewPushStream"} /\ evt.id >= cutoff

(* a call of events(): it empties a set of pending events that is not    *)
(* empty and leaves the transport alone                                  *)
EventsCall == events # {} /\ events' = {} /\ conn' = conn

(* C7: after a client has handled GOAWAY(cutoff), no call of events()    *)
(* delivers a HeaderReady, DataReadable or NewPushStream event with a    *)
(* stream id at or above the cutoff, whatever happened in between,       *)
(* further fetch calls included.                                         *)
C7_NothingAboveCutoffDelivered ==
    [][EventsCall =>
         \A evt \in events : \A i \in DOMAIN log.goaways :
            ~SilencedByGoaway(evt, log.goaways[i])]_vars

(* the ids of the streams the connection has asked the peer to stop *)
StoppedStreams(c) == {p[1] : p \in c.stop_sending}

(* C8: the step in which a client handles GOAWAY(cutoff) removes every   *)
(* request stream at or above the cutoff and leaves RequestClosed with   *)
(* NetReset pending for each; it keeps every request stream below the    *)
(* cutoff, unless the stream ended with a stream error of its own in     *)
(* the same step; it leaves no HeaderReady, DataReadable or              *)
(* NewPushStream pending at or above the cutoff and keeps the pending    *)
(* RequestClosed and ConnectionClosed events; the state goes from        *)
(* Connected to GoingAway, the transport stays connected, unless an      *)
(* error of the same step closes the connection.                         *)
C8_HandleGoaway ==
    [][Len(log.goaways') = Len(log.goaways) + 1 =>
         With(log.goaways'[Len(log.goaways')], LAMBDA cutoff :
            /\ role = "Client"
            /\ \A id \in DOMAIN request_streams_client :
                 IF id >= cutoff
                 THEN /\ id \notin DOMAIN request_streams_client'
                      /\ RequestClosed(id, NetReset) \in events'
                 ELSE state' = GoingAway =>
                        \/ id \in DOMAIN request_streams_client'
                        \/ id \in StoppedStreams(conn') \ StoppedStreams(conn)
            /\ \A id \in DOMAIN request_streams_client' : id < cutoff
            /\ \A evt \in events' : ~SilencedByGoaway(evt, cutoff)
            /\ \A evt \in events :
                 evt.e \in {"RequestClosed", "ConnectionClosed"} => evt \in events'
            /\ \A evt \in events' \ events :
                 evt.e = "RequestClosed" =>
                    /\ evt.error = NetReset
                    /\ evt.id \in DOMAIN request_streams_client
                    /\ evt.id >= cutoff
            /\ state = Connected =>
                 \/ state' = GoingAway /\ conn'.state = "Connected"
                 \/ state'.t = "Closing")]_vars

(* C8 witness: after GOAWAY(4) the request on stream 4 is dropped with   *)
(* RequestClosed pending and its HeaderReady gone, the request on        *)
(* stream 0 and its HeaderReady are still there                          *)
C8_Witness ==
    /\ state = GoingAway
    /\ log.goaways = <<4>>
    /\ log.fetched = {0, 4}
    /\ DOMAIN request_streams_client = {0}
    /\ events = {HeaderReady(0), DataReadable(0), RequestClosed(4, NetReset)}

(* C9: fetch registers a request stream only in state Connected: in any  *)
(* other state no request is added to the connection and no id is        *)
(* returned.                                                             *)
C9_FetchOnlyWhenConnected ==
    [][state # Connected =>
         /\ DOMAIN request_streams_client' \subseteq DOMAIN request_streams_client
         /\ log.fetched' = log.fetched
         /\ streams_have_data_to_send' \subseteq streams_have_data_to_send]_vars

(* C10: while the connection is neither closing nor closed, a request    *)
(* that fetch started and that the connection no longer holds has been   *)
(* finished towards the application: by a read that returned fin, or by  *)
(* a RequestClosed that is pending or has been delivered.                *)
C10_EveryRequestIsFinished ==
    state.t \notin {"Closing", "Closed"} =>
        \A id \in log.fetched :
            id \notin DOMAIN request_streams_client =>
                \/ id \in log.fin_read
                \/ id \in log.closed_delivered
                \/ \E evt \in events : evt.e = "RequestClosed" /\ evt.id = id

(* the place of a state on the way Initializing, Connected, GoingAway,   *)
(* Closing, Closed                                                       *)
StateRank(st) ==
    CASE st.t = "Initializing" -> 0
      [] st.t = "Connected" -> 1
      [] st.t = "GoingAway" -> 2
      [] st.t = "Closing" -> 3
      [] OTHER -> 4

(* C11: the state never moves back on the way Initializing, Connected,   *)
(* GoingAway, Closing, Closed, and Closed is terminal: once the state is *)
(* Closed(code) no operation changes the state or its code.              *)
C11_ClosedIsTerminal ==
    [][/\ StateRank(state) <= StateRank(state')
       /\ state.t = "Closed" => state' = state]_vars

(* C12: a step that finds the transport Closed while the state is        *)
(* Closing(code) leaves the state Closed(code), and every step from      *)
(* Closing to Closed keeps the code and has the transport Closed.        *)
C12_ClosedKeepsCode ==
    [][/\ (state.t = "Closing" /\ state'.t = "Closed") =>
             state'.code = state.code /\ conn'.state = "Closed"
       /\ (state.t = "Closing" /\ conn.state # "Closed" /\ conn'.state = "Closed") =>
             state' = Closed(state.code)]_vars

(* C12 witness: the initialisation failed for want of streams, the       *)
(* connection was Closing with the transport error and is now Closed     *)
(* with it                                                               *)
C12_Witness ==
    /\ state = Closed(TransportError)
    /\ conn.state = "Closed"
    /\ conn.close_code = TransportError

(* a tick that has nothing to do but to handle the close of the          *)
(* connection: nothing is readable and every pending transport event     *)
(* reports the close                                                     *)
OnlyCloseToHandle ==
    /\ state \in {Connected, GoingAway}
    /\ conn.events # <<>>
    /\ \A i \in DOMAIN conn.events : conn.events[i].e = "ConnectionClosed"
    /\ streams_are_readable = {}

(* C13: handling the transport event ConnectionClosed(code) in Connected *)
(* or GoingAway discards every pending event, queues exactly             *)
(* ConnectionClosed{code} and makes the state Closed(code): so does the  *)
(* handler in every reachable state, and so does a process_http3 that    *)
(* has only this event to handle.                                        *)
C13_ConnectionClosedHandled ==
    [][/\ state \in {Connected, GoingAway} =>
             \A code \in PeerCloseCodes :
                With(HandleConnectionClosed(Self, code), LAMBDA h :
                   /\ h.events = {ConnectionClosed(code)}
                   /\ h.state = Closed(code)
                   /\ h.err = NoErr)
       /\ (OnlyCloseToHandle /\ conn'.events = <<>>) =>
             /\ events' = {ConnectionClosed(conn.events[1].code)}
             /\ state' = Closed(conn.events[1].code)]_vars

(* C13 witness: the response headers of request 0 had arrived and their  *)
(* HeaderReady was pending when the peer closed; only ConnectionClosed   *)
(* is pending now                                                        *)
C13_Witness ==
    /\ state = Closed(7)
    /\ events = {ConnectionClosed(7)}
    /\ 0 \in DOMAIN request_streams_client
    /\ request_streams_client[0].has_headers

(* the application can see that the connection is over *)
CloseObserved ==
    \/ state.t \in {"Closing", "Closed"}
    \/ \E evt \in events : evt.e = "ConnectionClosed"

(* C14: when the transport has closed, at any time, also during          *)
(* Initializing, and the application has called process since (nothing   *)
(* that arrived is still waiting for process_http3), the application can *)
(* see it: the state is Closing or Closed or a ConnectionClosed event is *)
(* there for events().                                                   *)
C14_TransportCloseObserved ==
    (conn.state = "Closed" /\ peer.pending = 0) => CloseObserved

(* where an event stands in what events() returned *)
PlaceIn(v, evt) == CHOOSE i \in DOMAIN v : v[i] = evt

(* C15: events() returns the events in the order of their insertion: an  *)
(* event inserted by an earlier call than another one stands before it   *)
(* in the vector returned.                                               *)
C15_EventsInInsertionOrder ==
    [][EventsCall =>
         \A i \in DOMAIN log.queued : \A j \in DOMAIN log.queued :
            i < j =>
               \A a \in log.queued[i] : \A b \in log.queued[j] :
                  PlaceIn(Events(Self).events, a) < PlaceIn(Events(Self).events, b)]_vars

(* C16: events() drains the set of pending events: what it returns holds *)
(* every pending event once, and the call leaves no event pending and    *)
(* nothing else changed, so that an event is returned again only if it   *)
(* is inserted again.                                                    *)
C16_EventsDrains ==
    [][/\ Range(Events(Self).events) = events
       /\ Len(Events(Self).events) = Cardinality(events)
       /\ Events(Self).h = [Self EXCEPT !.events = {}]
       /\ (events' # events /\ conn' = conn
             /\ streams_are_readable' = streams_are_readable) =>
             /\ events' = {}
             /\ log.queued' = <<>>
             /\ log.closed_delivered' =
                   log.closed_delivered \cup
                      {evt.id : evt \in {x \in events : x.e = "RequestClosed"}}]_vars

(* C16 witness: events() has returned the RequestClosed of stream 4 and  *)
(* nothing is pending; the request on stream 0 goes on                   *)
C16_Witness ==
    /\ events = {}
    /\ log.closed_delivered = {4}
    /\ 0 \in DOMAIN request_streams_client
    /\ request_streams_client[0].has_headers

(* the bytes a request stream has next: what its frame reader holds and  *)
(* what the transport holds for it                                       *)
NextBytes(id) ==
    request_streams_client[id].frame_reader
        \o (IF id \in DOMAIN conn.recv THEN conn.recv[id].data ELSE <<>>)

(* the request stream is between frames and its next frame is of type t *)
(* and is there as far as the frame reader takes it: in full, or with    *)
(* its header for a DATA frame                                           *)
NextFrameIs(id, t) ==
    /\ id \in DOMAIN request_streams_client
    /\ request_streams_client[id].recv_state
          \in {"WaitingForResponseHeaders", "WaitingForData"}
    /\ FrHasLen(NextBytes(id))
    /\ FrType(NextBytes(id)) = t
    /\ \E n \in 1..Len(NextBytes(id)) : FrameDone(SubSeq(NextBytes(id), 1, n))

(* process_http3 runs with the stream reported readable *)
ReadInThisTick(id) ==
    /\ state \in {Connected, GoingAway}
    /\ peer.pending > 0
    /\ peer'.pending = 0
    /\ \/ id \in streams_are_readable
       \/ \E i \in DOMAIN conn.events :
             conn.events[i].e = "RecvStreamReadable" /\ conn.events[i].id = id

(* the frames that do not belong on a request stream of a client, with   *)
(* the error each gives                                                  *)
WrongFrames ==
    {<<H3_FRAME_TYPE_SETTINGS, WrongStream>>, <<H3_FRAME_TYPE_GOAWAY, WrongStream>>,
     <<H3_FRAME_TYPE_MAX_PUSH_ID, WrongStream>>, <<H3_FRAME_TYPE_CANCEL_PUSH, WrongStream>>,
     <<H3_FRAME_TYPE_PRIORITY, UnexpectedFrame>>}

(* C17: when a client reads a whole SETTINGS, GOAWAY, MAX_PUSH_ID or     *)
(* CANCEL_PUSH frame (WrongStream) or a PRIORITY frame (UnexpectedFrame) *)
(* on a request stream, it asks the peer to stop sending on that stream  *)
(* with the code of the error, drops the stream and stays in the state   *)
(* it was in: the error never closes the connection. (A stream that a    *)
(* GOAWAY or a connection error of the same tick removed before it was   *)
(* read is not read, and a frame whose payload has not arrived in full   *)
(* stays with the frame reader.)                                         *)
C17_WrongFrameOnRequestStream ==
    [][/\ \A id \in DOMAIN request_streams_client : \A w \in WrongFrames :
            (NextFrameIs(id, w[1]) /\ ReadInThisTick(id)) =>
               /\ id \notin DOMAIN request_streams_client'
               /\ \/ <<id, w[2]>> \in conn'.stop_sending
                  \/ RequestClosed(id, NetReset) \in events'
                  \/ state'.t = "Closing"
               /\ state'.t = "Closing" =>
                     state'.code \notin {WrongStream, UnexpectedFrame}
               /\ (state'.t # "Closing" /\ log.goaways' = log.goaways) => state' = state
       /\ \A p \in conn'.stop_sending \ conn.stop_sending :
            /\ p[1] \in DOMAIN request_streams_client
            /\ p[1] \notin DOMAIN request_streams_client'
            /\ IsStreamError(p[2])]_vars

(* C17 witness: a SETTINGS frame on stream 0 and a PRIORITY frame on     *)
(* stream 4 ended the two requests, the connection is Connected          *)
C17_Witness ==
    /\ state = Connected
    /\ log.fetched = {0, 4}
    /\ conn.stop_sending = {<<0, WrongStream>>, <<4, UnexpectedFrame>>}
    /\ request_streams_client = EmptyMap
    /\ conn.recv[4].data = <<>>

(* the error the transaction of a request stream gives to a read_data    *)
(* with some buffer, NoErr when it gives none                            *)
ReadErrorOf(id) ==
    IF \E n \in BufLens :
          ClientReadData(request_streams_client[id], conn, id, n).err # NoErr
    THEN ClientReadData(request_streams_client[id], conn, id,
                        CHOOSE n \in BufLens :
                           ClientReadData(request_streams_client[id], conn, id, n).err
                              # NoErr).err
    ELSE NoErr

(* C18: a read_data on an active request stream whose transaction fails  *)
(* returns ConnectionError, leaves the state Closing with the code of    *)
(* the error that occurred, the transport closing with that code and no  *)
(* request stream; from Closing the state only goes on to Closed with    *)
(* the same code.                                                        *)
C18_ReadDataError ==
    [][/\ \A id \in DOMAIN request_streams_client : \A n \in BufLens :
            (ClientReadData(request_streams_client[id], conn, id, n).err # NoErr)
               = (ReadData(Self, id, n).err = "ConnectionError")
       /\ \A id \in log.read_failed' \ log.read_failed :
            /\ id \in DOMAIN request_streams_client
            /\ ReadErrorOf(id) # NoErr
            /\ state' = Closing(ReadErrorOf(id))
            /\ request_streams_client' = EmptyMap
            /\ request_streams_server' = EmptyMap
            /\ conn.state = "Connected" =>
                  conn'.state = "Closing" /\ conn'.close_code = ReadErrorOf(id)
       /\ (state.t = "Closing" /\ state' # state) => state' = Closed(state.code)]_vars

(* C18 witness: the peer ended stream 0 in the middle of a DATA frame;   *)
(* read_data failed, the request on stream 4, still active then, is gone *)
(* and the connection is Closed with the code of MalformedFrame(DATA)    *)
C18_Witness ==
    /\ state = Closed(MalformedFrame(H3_FRAME_TYPE_DATA))
    /\ log.read_failed = {0}
    /\ log.fetched = {0, 4}
    /\ log.fin_read = {}
    /\ log.goaways = <<>>
    /\ conn.stop_sending = {}
    /\ request_streams_client = EmptyMap

(* stream ids that are not active client request streams: requests not   *)
(* yet made or over, the streams of the peer, the local control stream   *)
UnknownIds ==
    (LocalBidiIds \cup DOMAIN conn.recv \cup DOMAIN conn.sent) \ DOMAIN request_streams_client

(* C19: read_data and get_headers with a stream id that is not an active *)
(* client request stream return InvalidStreamId, and the call changes    *)
(* nothing: the state, the request streams, the readable and sendable    *)
(* sets and the pending events are as before.                            *)
C19_UnknownStreamId ==
    \A id \in UnknownIds :
        /\ GetHeaders(Self, id).err = "InvalidStreamId"
        /\ \A n \in BufLens :
              /\ ReadData(Self, id, n).err = "InvalidStreamId"
              /\ ReadData(Self, id, n).h = Self

(* C19 witness: the request on stream 0 is over, the one on stream 4 is  *)
(* active and has an event pending, the peer's control stream is there   *)
C19_Witness ==
    /\ state = Connected
    /\ log.fin_read = {0}
    /\ 4 \in DOMAIN request_streams_client
    /\ HeaderReady(4) \in events
    /\ 0 \in UnknownIds
    /\ control_stream_remote.stream_id \in UnknownIds

(* C20: the read_data that returns fin removes the stream, and from then *)
(* on read_data and get_headers for its id return InvalidStreamId; a     *)
(* read_data that returns without fin leaves the stream where it is.     *)
C20_FinRemovesStream ==
    [][/\ \A id \in DOMAIN request_streams_client : \A n \in BufLens :
            With(ReadData(Self, id, n), LAMBDA r :
               r.err = "" => (r.fin = (id \notin DOMAIN r.h.request_streams_client)))
       /\ \A id \in log.fin_read' \ log.fin_read :
            id \in DOMAIN request_streams_client
       /\ \A id \in log.fin_read' :
            /\ id \notin DOMAIN request_streams_client'
            /\ id \in log.fetched'
       /\ \A id \in log.fin_read :
            /\ GetHeaders(Self, id).err = "InvalidStreamId"
            /\ \A n \in BufLens : ReadData(Self, id, n).err = "InvalidStreamId"]_vars

(* C20 witness: the response on stream 0 was read to its end, after its  *)
(* headers had been fetched; the stream is gone and the connection goes  *)
(* on                                                                    *)
C20_Witness ==
    /\ state = Connected
    /\ log.fin_read = {0}
    /\ log.headers_got = {0}
    /\ 0 \notin DOMAIN request_streams_client
    /\ 0 \in DOMAIN conn.recv
    /\ conn.recv[0].fin


(* a read_data that took bytes of the body of stream id *)
ReadTook(id) ==
    /\ id \in DOMAIN request_streams_client
    /\ request_streams_client[id].recv_state = "ReadingData"
    /\ Len(conn'.recv[id].data) < Len(conn.recv[id].data)

(* process_http3 serves stream id because read_data marked it readable,  *)
(* and the transport has reported nothing since the last tick            *)
ServedAgain(id) ==
    /\ state \in {Connected, GoingAway}
    /\ conn.events = <<>>
    /\ id \in DOMAIN request_streams_client
    /\ id \in streams_are_readable
    /\ id \notin streams_are_readable'

(* more of the body of stream id is buffered: the rest of the DATA frame *)
(* being read, or a further DATA frame                                   *)
BodyBuffered(id) ==
    \/ /\ request_streams_client[id].recv_state = "ReadingData"
       /\ conn.recv[id].data # <<>>
    \/ /\ request_streams_client[id].recv_state = "WaitingForData"
       /\ NextFrameIs(id, H3_FRAME_TYPE_DATA)

(* C21: a read_data that returns n > 0 without fin puts the stream into  *)
(* streams_are_readable, one that returns n = 0, fin or an error leaves  *)
(* the set as it is; the next process_http3, with no event of the        *)
(* transport pending, serves the stream again and leaves DataReadable    *)
(* pending for it when more of its body is buffered, unless an error     *)
(* ends the tick before.                                                 *)
C21_ReadAgainAfterPartialRead ==
    [][/\ \A id \in DOMAIN request_streams_client : \A n \in BufLens :
            With(ReadData(Self, id, n), LAMBDA r :
               IF r.err = "" /\ r.amount > 0 /\ ~r.fin
               THEN r.h.streams_are_readable = streams_are_readable \cup {id}
               ELSE r.h.streams_are_readable = streams_are_readable)
       /\ \A id \in DOMAIN request_streams_client :
            (ReadTook(id) /\ id \in DOMAIN request_streams_client') =>
               id \in streams_are_readable'
       /\ \A id \in log.fin_read' \ log.fin_read :
            streams_are_readable' = streams_are_readable
       /\ \A id \in DOMAIN request_streams_client :
            (ServedAgain(id) /\ BodyBuffered(id)) =>
               \/ DataReadable(id) \in events'
               \/ state'.t = "Closing"]_vars

(* C21 witness: one byte of the two of a DATA frame was read from stream *)
(* 0 after events() had returned its events; nothing more has arrived,   *)
(* the tick has run and DataReadable is pending again                    *)
C21_Witness ==
    /\ state = Connected
    /\ peer.writes = 1
    /\ peer.pending = 0
    /\ 0 \in DOMAIN request_streams_client
    /\ ~conn.recv[0].fin
    /\ request_streams_client[0].recv_state = "ReadingData"
    /\ request_streams_client[0].remaining = 1
    /\ request_streams_client[0].has_headers
    /\ streams_are_readable = {}
    /\ events = {DataReadable(0)}

(* the codes close is tried with: the application's, and those of errors *)
CloseCodes == AppCloseCodes \cup {WrongStreamCount, MalformedFrame(H3_FRAME_TYPE_DATA)}

(* the ids the application or the peer may know a stream by *)
KnownIds == LocalBidiIds \cup DOMAIN conn.recv

(* C22: close(code) makes the state Closing(code), empties the client    *)
(* and the server request streams and closes the transport with the      *)
(* code, in every reachable state; so does every step that enters        *)
(* Closing; and from then on there is no request stream, so that         *)
(* read_data and get_headers return InvalidStreamId for every id.        *)
C22_Close ==
    [][/\ \A code \in CloseCodes :
            With(Close(Self, code), LAMBDA h :
               /\ h.state = Closing(code)
               /\ h.request_streams_client = EmptyMap
               /\ h.request_streams_server = EmptyMap
               /\ h.conn = ConnClose(conn, code)
               /\ conn.state # "Closed" =>
                     h.conn.state = "Closing" /\ h.conn.close_code = code
               /\ \A id \in KnownIds :
                     /\ GetHeaders(h, id).err = "InvalidStreamId"
                     /\ \A n \in BufLens : ReadData(h, id, n).err = "InvalidStreamId")
       /\ (state.t # "Closing" /\ state'.t = "Closing") =>
             /\ request_streams_client' = EmptyMap
             /\ request_streams_server' = EmptyMap
             /\ conn'.state \in {"Closing", "Closed"}
             /\ conn.state # "Closed" => conn'.close_code = state'.code
       /\ state.t = "Closing" =>
             request_streams_client = EmptyMap /\ request_streams_server = EmptyMap
       /\ (/\ state.t \in {"Closing", "Closed"}
           /\ request_streams_client = EmptyMap
           /\ request_streams_server = EmptyMap) =>
             request_streams_client' = EmptyMap /\ request_streams_server' = EmptyMap]_vars

(* C22 witness: a server had taken the request stream of the client, the *)
(* request was not complete, and the application closed: the state is    *)
(* Closing(0), the transport is closing with 0, no request stream is     *)
(* left                                                                  *)
C22_Witness ==
    /\ role = "Server"
    /\ state = Closing(HttpNoError)
    /\ conn.state = "Closing"
    /\ conn.close_code = HttpNoError
    /\ peer.bidi_opened = 1
    /\ conn.events = <<>>
    /\ log.handler_calls = <<>>
    /\ request_streams_server = EmptyMap

(* the stream types the connection knows *)
KnownStreamTypes ==
    {HTTP3_UNI_STREAM_TYPE_CONTROL, HTTP3_UNI_STREAM_TYPE_PUSH,
     QPACK_UNI_STREAM_TYPE_ENCODER, QPACK_UNI_STREAM_TYPE_DECODER}

(* stream types that do not exist, on one byte and on two *)
UnknownTypes == {4, 33, 63, 64, 281, 16383}

(* the stream has no owner after the step *)
UnboundNext(id) ==
    /\ control_stream_remote'.stream_id # id
    /\ qpack_encoder'.recv_stream # id
    /\ qpack_decoder'.recv_stream # id
    /\ id \notin DOMAIN new_streams'
    /\ id \notin DOMAIN request_streams_client'
    /\ id \notin DOMAIN request_streams_server'

(* the tick has this one stream to serve and nothing else *)
QuietFor(id) ==
    /\ \A i \in DOMAIN conn.events : conn.events[i].id = id
    /\ streams_are_readable \subseteq {id}

(* the types read from new streams in this step, with their streams *)
TypesRead == {log.types'[i] : i \in (Len(log.types) + 1)..Len(log.types')}

(* C23: for either role, decode_new_stream with a type other than        *)
(* control, push, QPACK encoder and QPACK decoder, on one byte or more,  *)
(* asks the peer to stop sending with UnknownStreamType and changes      *)
(* nothing else; the step in which such a type is read from a peer       *)
(* stream, at once or after the type arrived in pieces, leaves the stop  *)
(* request with the transport and the stream without owner, never closes *)
(* the connection with UnknownStreamType, and leaves the state as it is  *)
(* when nothing else is served in the tick.                              *)
C23_UnknownStreamType ==
    [][/\ \A t \in UnknownTypes : \A id \in DOMAIN conn.recv :
            DecodeNewStream(Self, t, id)
               = [Self EXCEPT !.conn = StreamStopSending(conn, id, UnknownStreamType)]
       /\ \A r \in TypesRead :
            r[2] \notin KnownStreamTypes =>
               /\ <<r[1], UnknownStreamType>> \in conn'.stop_sending
               /\ UnboundNext(r[1])
               /\ state'.code # UnknownStreamType
               /\ QuietFor(r[1]) => state' = state
       /\ \A p \in conn'.stop_sending \ conn.stop_sending :
            p[2] = UnknownStreamType =>
               \E r \in TypesRead : r[1] = p[1] /\ r[2] \notin KnownStreamTypes]_vars

(* C23 witness: a server read the type 281 of stream 2 from two bytes    *)
(* that arrived one after the other, asked the client to stop, then      *)
(* took stream 6 for the control stream; it is Connected                 *)
C23_Witness ==
    /\ role = "Server"
    /\ state = Connected
    /\ log.types = <<<<2, 281>>, <<6, HTTP3_UNI_STREAM_TYPE_CONTROL>>>>
    /\ conn.stop_sending = {<<2, UnknownStreamType>>}
    /\ conn.recv[2].data = <<>>
    /\ control_stream_remote.stream_id = 6
    /\ settings_received
    /\ new_streams = EmptyMap

(* the code a push stream is refused with *)
PushRefusal == IF role = "Server" THEN WrongStreamDirection ELSE PushRefused

(* C24: a push stream is never accepted: decode_new_stream with the type *)
(* push asks the peer to stop sending, a server with                     *)
(* WrongStreamDirection, a client with PushRefused, and changes nothing  *)
(* else; the step in which the type is read leaves the stop request with *)
(* the transport and the stream without owner, does not close the        *)
(* connection with either code, leaves the state as it is when nothing   *)
(* else is served in the tick; no NewPushStream event is ever pending.   *)
C24_PushStreamRefused ==
    [][/\ \A id \in DOMAIN conn.recv :
            DecodeNewStream(Self, HTTP3_UNI_STREAM_TYPE_PUSH, id)
               = [Self EXCEPT !.conn = StreamStopSending(conn, id, PushRefusal)]
       /\ \A r \in TypesRead :
            r[2] = HTTP3_UNI_STREAM_TYPE_PUSH =>
               /\ <<r[1], PushRefusal>> \in conn'.stop_sending
               /\ UnboundNext(r[1])
               /\ state'.code \notin {WrongStreamDirection, PushRefused}
               /\ QuietFor(r[1]) => state' = state
       /\ \A evt \in events' : evt.e # "NewPushStream"]_vars

(* C24 witness: a client has refused the push stream 7 after it had      *)
(* taken stream 3 for the control stream; it is Connected                *)
C24_Witness ==
    /\ role = "Client"
    /\ state = Connected
    /\ log.types = <<<<3, HTTP3_UNI_STREAM_TYPE_CONTROL>>, <<7, HTTP3_UNI_STREAM_TYPE_PUSH>>>>
    /\ conn.stop_sending = {<<7, PushRefused>>}
    /\ settings_received
    /\ new_streams = EmptyMap
    /\ events = {}

(* the bidirectional streams the peer can open *)
PeerBidiIds == {StreamBase(PeerRole(role), TRUE) + 4 * i : i \in 0..(MaxPeerBidi - 1)}

(* process_http3 takes the NewStream event of the bidirectional stream   *)
(* id of the peer                                                        *)
NewBidiTaken(id) ==
    /\ state \in {Connected, GoingAway}
    /\ conn'.events = <<>>
    /\ \E i \in DOMAIN conn.events : conn.events[i] = TEvent("NewStream", id, TRUE, None)

(* C25: handle_new_stream for a bidirectional stream of the peer: a      *)
(* client asks the peer to stop sending with code 0 and changes nothing  *)
(* else, a server creates the server request stream of that id. A tick   *)
(* that takes the NewStream event does so unless an error ends it        *)
(* before; when it serves nothing but this stream the state is left as   *)
(* it is, a client has asked to stop and a server holds the stream. A    *)
(* client never holds a request stream with an id of the peer or a       *)
(* server request stream.                                                *)
C25_PeerBidiStream ==
    [][/\ \A id \in PeerBidiIds :
            HandleNewStream(Self, id, TRUE)
               = IF role = "Client"
                 THEN [Self EXCEPT !.conn = StreamStopSending(conn, id, 0)]
                 ELSE [Self EXCEPT !.request_streams_server =
                                       MapPut(@, id, RequestStreamServerNew)]
       /\ \A id \in PeerBidiIds :
            NewBidiTaken(id) =>
               IF role = "Client"
               THEN /\ <<id, 0>> \in conn'.stop_sending \/ state'.t = "Closing"
                    /\ QuietFor(id) =>
                          /\ state' = state
                          /\ conn'.stop_sending = conn.stop_sending \cup {<<id, 0>>}
               ELSE /\ id \in DOMAIN request_streams_server' \/ state'.t = "Closing"
                    /\ QuietFor(id) =>
                          /\ state' = state
                          /\ DOMAIN request_streams_server' =
                                DOMAIN request_streams_server \cup {id}
                          /\ conn'.stop_sending = conn.stop_sending
       /\ role = "Client" =>
             /\ request_streams_server' = EmptyMap
             /\ DOMAIN request_streams_client' \subseteq LocalBidiIds]_vars

(* C25 witness: a client with a request of its own has been offered the  *)
(* bidirectional stream 1 by the server: it asked to stop with code 0,   *)
(* holds its own request and nothing else, and is Connected              *)
C25_Witness ==
    /\ role = "Client"
    /\ state = Connected
    /\ peer.bidi_opened = 1
    /\ conn.events = <<>>
    /\ conn.stop_sending = {<<1, 0>>}
    /\ DOMAIN request_streams_client = {0}
    /\ request_streams_server = EmptyMap

(* the frame reader of the remote control stream when it is done with    *)
(* the frame that starts bytes                                           *)
ReaderDoneWith(bytes) ==
    SubSeq(bytes, 1, CHOOSE n \in 1..Len(bytes) :
                        /\ FrameDone(SubSeq(bytes, 1, n))
                        /\ \A m \in 1..(n - 1) : ~FrameDone(SubSeq(bytes, 1, m)))

(* the connection with the frame of a done reader on the remote control  *)
(* stream                                                                *)
WithControlFrame(h, reader) ==
    [h EXCEPT !.control_stream_remote.frame_reader = reader]

(* the readers done with the frames that do not belong on a control      *)
(* stream                                                                *)
WrongFramesRead == {ReaderDoneWith(f) : f \in WrongControlFrames}

WrongControlTypes ==
    {H3_FRAME_TYPE_DATA, H3_FRAME_TYPE_HEADERS, H3_FRAME_TYPE_PUSH_PROMISE,
     H3_FRAME_TYPE_DUPLICATE_PUSH}

(* the places in the log of the control frames handled by this step *)
NewControlFrames == (Len(log.ctrl_frames) + 1)..Len(log.ctrl_frames')

(* C26: after SETTINGS has been accepted, for either role,               *)
(* handle_control_frame fails with WrongStream on a DATA, HEADERS,       *)
(* PUSH_PROMISE or DUPLICATE_PUSH frame of the remote control stream,    *)
(* and a tick that handles such a frame handles nothing after it and     *)
(* leaves the connection Closing with WrongStream and the transport      *)
(* closed with that code, whether the frame came in one piece or one     *)
(* byte for each tick.                                                   *)
C26_WrongFrameOnControlStream ==
    [][/\ (settings_received /\ ~control_stream_remote.fin) =>
             \A r \in WrongFramesRead :
                /\ GetFrame(r).type \in WrongControlTypes
                /\ HandleControlFrame(WithControlFrame(Self, r)).err = WrongStream
       /\ \A i \in NewControlFrames :
             (/\ i > 1
              /\ log.ctrl_frames'[1] = H3_FRAME_TYPE_SETTINGS
              /\ log.ctrl_frames'[i] \in WrongControlTypes) =>
                /\ i = Len(log.ctrl_frames')
                /\ state' = Closing(WrongStream)
                /\ conn'.state = "Closing"
                /\ conn'.close_code = WrongStream]_vars

(* C26 witness: a client that accepted SETTINGS got a PUSH_PROMISE frame *)
(* on the control stream one byte for each tick and is Closing with      *)
(* WrongStream after the push id, the last byte still to come            *)
C26_Witness ==
    /\ role = "Client"
    /\ state = Closing(WrongStream)
    /\ log.ctrl_frames = <<H3_FRAME_TYPE_SETTINGS, H3_FRAME_TYPE_PUSH_PROMISE>>
    /\ peer.writes = 1
    /\ peer.slow = <<2>>
    /\ conn.close_code = WrongStream

(* the control frame a role must not receive: GOAWAY goes to a client,   *)
(* MAX_PUSH_ID to a server                                               *)
WrongDirectionType ==
    IF role = "Server" THEN H3_FRAME_TYPE_GOAWAY ELSE H3_FRAME_TYPE_MAX_PUSH_ID

WrongDirectionBytes == IF role = "Server" THEN GoawayBytes ELSE MaxPushIdBytes

RightDirectionBytes == IF role = "Server" THEN MaxPushIdBytes ELSE GoawayBytes

(* C27: after SETTINGS, handle_control_frame fails with UnexpectedFrame  *)
(* on a GOAWAY frame when the role is server and on a MAX_PUSH_ID frame  *)
(* when the role is client, and with no error on the frame of the other  *)
(* direction; a tick that handles the frame of the wrong direction       *)
(* handles nothing after it and leaves the connection Closing with       *)
(* UnexpectedFrame and the transport closed with that code; a server     *)
(* follows no GOAWAY and is never GoingAway.                             *)
C27_RoleDirectedFrames ==
    [][/\ (settings_received /\ ~control_stream_remote.fin) =>
             /\ HandleControlFrame(WithControlFrame(Self, WrongDirectionBytes)).err
                   = UnexpectedFrame
             /\ HandleControlFrame(WithControlFrame(Self, RightDirectionBytes)).err = NoErr
       /\ \A i \in NewControlFrames :
             (/\ i > 1
              /\ log.ctrl_frames'[1] = H3_FRAME_TYPE_SETTINGS
              /\ log.ctrl_frames'[i] = WrongDirectionType) =>
                /\ i = Len(log.ctrl_frames')
                /\ state' = Closing(UnexpectedFrame)
                /\ conn'.state = "Closing"
                /\ conn'.close_code = UnexpectedFrame
       /\ role = "Server" =>
             /\ state' # GoingAway
             /\ log.goaways' = <<>>]_vars

(* C27 witness: a server that accepted SETTINGS and then got GOAWAY on   *)
(* the control stream is Closing with UnexpectedFrame                    *)
C27_Witness ==
    /\ role = "Server"
    /\ state = Closing(UnexpectedFrame)
    /\ log.ctrl_frames = <<H3_FRAME_TYPE_SETTINGS, H3_FRAME_TYPE_GOAWAY>>
    /\ log.goaways = <<>>
    /\ conn.close_code = UnexpectedFrame

(* the first unidirectional stream of the peer *)
PeerFirstUni == StreamBase(PeerRole(role), FALSE)

(* the SETTINGS frame bytes is what the peer wrote first on its control  *)
(* stream and it has not been handled yet                                *)
SettingsToCome(bytes) ==
    /\ log.ctrl_frames = <<>>
    /\ PeerFirstUni \in DOMAIN conn.recv
    /\ \E pre \in {ControlType \o bytes, bytes} :
          /\ Len(conn.recv[PeerFirstUni].data) >= Len(pre)
          /\ SubSeq(conn.recv[PeerFirstUni].data, 1, Len(pre)) = pre

(* the connection after handle_control_frame has taken a SETTINGS frame  *)
(* and stored what the stores say                                        *)
SettingsStored(h, mhls, np, mts, mbs) ==
    [h EXCEPT !.control_stream_remote.frame_reader = <<>>,
              !.log.ctrl_frames = Append(@, H3_FRAME_TYPE_SETTINGS),
              !.settings_received = TRUE,
              !.max_header_list_size = mhls,
              !.num_placeholders = np,
              !.qpack_encoder.max_table_size = mts,
              !.qpack_encoder.max_blocked_streams = mbs]

(* C28: handle_settings stores MaxHeaderListSize, stores NumPlaceholders *)
(* when the role is client and fails with WrongStreamDirection when it   *)
(* is server, hands MaxTableSize and BlockedStreams to the QPACK         *)
(* encoder, and passes over a setting id it does not know without an     *)
(* error; nothing else of the connection changes. A tick that handles    *)
(* the SETTINGS frame leaves these values stored, and a server that got  *)
(* NumPlaceholders Closing with WrongStreamDirection with the settings   *)
(* before it stored and those after it not.                              *)
C28_HandleSettings ==
    [][/\ (~settings_received /\ ~control_stream_remote.fin) =>
             /\ GetFrame(SettingsAllBytes).settings = SettingsAll
             /\ GetFrame(SettingsQpackBytes).settings = SettingsQpack
             /\ HandleControlFrame(WithControlFrame(Self, SettingsQpackBytes))
                   = SettingsStored(Self, 9, num_placeholders, 50, 8)
             /\ HandleControlFrame(WithControlFrame(Self, SettingsAllBytes))
                   = IF role = "Client"
                     THEN SettingsStored(Self, 5, 3, 50, 8)
                     ELSE Fail(SettingsStored(Self, 5, num_placeholders,
                                              qpack_encoder.max_table_size,
                                              qpack_encoder.max_blocked_streams),
                               WrongStreamDirection)
       /\ (SettingsToCome(SettingsQpackBytes) /\ log.ctrl_frames' # <<>>) =>
             /\ settings_received'
             /\ max_header_list_size' = 9
             /\ num_placeholders' = num_placeholders
             /\ qpack_encoder'.max_table_size = 50
             /\ qpack_encoder'.max_blocked_streams = 8
             /\ state'.code # WrongStreamDirection
       /\ (SettingsToCome(SettingsAllBytes) /\ log.ctrl_frames' # <<>>) =>
             /\ settings_received'
             /\ max_header_list_size' = 5
             /\ IF role = "Client"
                THEN /\ num_placeholders' = 3
                     /\ qpack_encoder'.max_table_size = 50
                     /\ qpack_encoder'.max_blocked_streams = 8
                     /\ state'.code # WrongStreamDirection
                ELSE /\ num_placeholders' = num_placeholders
                     /\ qpack_encoder'.max_table_size = qpack_encoder.max_table_size
                     /\ qpack_encoder'.max_blocked_streams
                           = qpack_encoder.max_blocked_streams
                     /\ log.ctrl_frames' = <<H3_FRAME_TYPE_SETTINGS>>
                     /\ state' = Closing(WrongStreamDirection)]_vars

(* C28 witness: a client that took a SETTINGS frame with every setting   *)
(* and one it does not know has stored them all and is Connected         *)
C28_Witness ==
    /\ role = "Client"
    /\ state = Connected
    /\ log.ctrl_frames = <<H3_FRAME_TYPE_SETTINGS>>
    /\ settings_received
    /\ max_header_list_size = 5
    /\ num_placeholders = 3
    /\ qpack_encoder.max_table_size = 50
    /\ qpack_encoder.max_blocked_streams = 8

IgnoredControlTypes == {H3_FRAME_TYPE_PRIORITY, H3_FRAME_TYPE_CANCEL_PUSH}

(* the connection after handle_control_frame has taken a frame of type   *)
(* type and done nothing about it                                        *)
FrameTaken(h, type) ==
    [h EXCEPT !.control_stream_remote.frame_reader = <<>>,
              !.log.ctrl_frames = Append(@, type)]

(* the tick handles control frames and all of them are PRIORITY or       *)
(* CANCEL_PUSH frames                                                    *)
OnlyIgnoredFramesHandled ==
    /\ NewControlFrames # {}
    /\ \A i \in NewControlFrames : log.ctrl_frames'[i] \in IgnoredControlTypes

(* C29: after SETTINGS, handle_control_frame takes a PRIORITY frame and  *)
(* a CANCEL_PUSH frame of the remote control stream without an error and *)
(* changes nothing of the connection but the frame reader, which it      *)
(* empties. A tick that handles only such frames raises no error of its  *)
(* own, and when it serves nothing but the control stream it leaves the  *)
(* state, the pending events and the request streams of both roles as    *)
(* they were (a request stream that sends in that tick changes by that   *)
(* sending only).                                                        *)
C29_IgnoredControlFrames ==
    [][/\ (settings_received /\ ~control_stream_remote.fin) =>
             /\ HandleControlFrame(WithControlFrame(Self, PriorityBytes))
                   = FrameTaken(Self, H3_FRAME_TYPE_PRIORITY)
             /\ HandleControlFrame(WithControlFrame(Self, CancelPushBytes))
                   = FrameTaken(Self, H3_FRAME_TYPE_CANCEL_PUSH)
       /\ (settings_received /\ OnlyIgnoredFramesHandled /\ QuietControlTick
             /\ ~control_stream_remote'.fin) =>
             /\ state' = state
             /\ events' = events
             /\ DOMAIN request_streams_client' = DOMAIN request_streams_client
             /\ request_streams_server' = request_streams_server
             /\ streams_have_data_to_send = {} =>
                   request_streams_client' = request_streams_client]_vars

(* C29 witness: a client with a request and a pending event has taken a  *)
(* PRIORITY and then a CANCEL_PUSH frame after SETTINGS and is still     *)
(* Connected                                                             *)
C29_Witness ==
    /\ role = "Client"
    /\ state = Connected
    /\ log.ctrl_frames
          = <<H3_FRAME_TYPE_SETTINGS, H3_FRAME_TYPE_PRIORITY, H3_FRAME_TYPE_CANCEL_PUSH>>
    /\ request_streams_client # EmptyMap
    /\ conn.events = <<>>

(* process_http3 runs on a live connection with input taken in since it  *)
(* ran last                                                              *)
TickTaken ==
    /\ state \in {Connected, GoingAway}
    /\ peer.pending > 0
    /\ peer'.pending = 0

(* the connection is Closing with the code of error, and so is the       *)
(* transport unless it was closed already                                *)
ClosedWith(error) ==
    /\ state' = Closing(error)
    /\ conn.state # "Closed" =>
          /\ conn'.state = "Closing"
          /\ conn'.close_code = error

(* the sending pass has not run: nothing was written to the transport,   *)
(* and what was waiting to be sent in h still waits                      *)
NoSendingPass(h) ==
    /\ conn'.sent = conn.sent
    /\ conn'.credit = conn.credit
    /\ control_stream_local' = control_stream_local
    /\ streams_have_data_to_send' = h.streams_have_data_to_send
    /\ qpack_encoder' = h.qpack_encoder
    /\ qpack_decoder' = h.qpack_decoder

(* the readable pass has not run: the streams check_connection_events    *)
(* left readable in h are still to be served and nothing was read         *)
NoReadablePass(h) ==
    /\ streams_are_readable' = h.streams_are_readable
    /\ conn'.recv = h.conn.recv
    /\ control_stream_remote' = h.control_stream_remote
    /\ new_streams' = h.new_streams
    /\ log'.ctrl_frames = log.ctrl_frames
    /\ events' = h.events

(* C30: in a process_http3 tick, when check_connection_events fails the  *)
(* connection is closed with the code of that error and neither the      *)
(* readable pass nor the sending pass has run; when the readable pass    *)
(* fails the connection is closed with the code of that error and the    *)
(* sending pass has not run; when neither fails the sending pass runs    *)
(* and the state is the one the first two passes left.                   *)
C30_ErrorAbortsTick ==
    [][TickTaken =>
         With(CheckConnectionEvents(Self), LAMBDA h1 :
         With(ProcessReading(h1), LAMBDA h2 :
            /\ h1.err # NoErr =>
                  /\ ClosedWith(h1.err)
                  /\ NoReadablePass(h1)
                  /\ NoSendingPass(h1)
            /\ (h1.err = NoErr /\ h2.err # NoErr) =>
                  /\ ClosedWith(h2.err)
                  /\ streams_are_readable' = h2.streams_are_readable
                  /\ NoSendingPass(h2)
            /\ (h1.err = NoErr /\ h2.err = NoErr) =>
                  /\ ProcessSending(h2).err = NoErr
                  /\ state' = h2.state
                  /\ control_stream_local'.buf = <<>> \/ conn'.credit = 0))]_vars

(* C30 witness: a tick found the second control stream of the peer among *)
(* the transport events and closed with WrongStreamCount, a stream that  *)
(* an earlier event of the same tick made readable still unserved        *)
C30_Witness ==
    /\ state = Closing(WrongStreamCount)
    /\ conn.close_code = WrongStreamCount
    /\ peer.pending = 0
    /\ streams_are_readable # {}
    /\ conn.events = <<>>

(* what the transport may accept of one write *)
PartialCredits == {0, 1, 4, BigCredit}

(* C31: whatever the transport accepts of a write, send on the local     *)
(* control stream hands it the first bytes of the buffer and keeps the   *)
(* rest: what the transport has taken followed by the buffer is the same *)
(* before and after, the transport has as many bytes more as it          *)
(* accepted, and no other stream is written; before the stream id is     *)
(* bound send writes nothing and keeps the buffer. Over every step what  *)
(* the transport holds of the stream only grows at its end and, followed *)
(* by the buffer, stays what was queued; no unidirectional stream exists *)
(* before the stream id is bound.                                        *)
C31_LocalControlDrain ==
    [][/\ \A c \in PartialCredits :
            With(LocalSend(control_stream_local, [conn EXCEPT !.credit = c]), LAMBDA r :
               IF control_stream_local.stream_id = None
               THEN /\ r.err = NoErr
                    /\ r.cl = control_stream_local
                    /\ r.conn.sent = conn.sent
               ELSE With(control_stream_local.stream_id, LAMBDA id :
                       /\ r.err = NoErr
                       /\ r.conn.sent[id] \o r.cl.buf
                             = conn.sent[id] \o control_stream_local.buf
                       /\ Len(r.conn.sent[id])
                             = Len(conn.sent[id])
                                  + Min(c, Len(control_stream_local.buf))
                       /\ r.cl.stream_id = id
                       /\ \A o \in DOMAIN conn.sent \ {id} :
                             r.conn.sent[o] = conn.sent[o]))
       /\ control_stream_local.stream_id = None => conn.uni_created = 0
       /\ control_stream_local.stream_id # None =>
             With(control_stream_local.stream_id, LAMBDA id :
                /\ control_stream_local'.stream_id = id
                /\ Len(conn'.sent[id]) >= Len(conn.sent[id])
                /\ SubSeq(conn'.sent[id], 1, Len(conn.sent[id])) = conn.sent[id]
                /\ conn'.sent[id] \o control_stream_local'.buf
                      = conn.sent[id] \o control_stream_local.buf)]_vars

(* C31 witness: the transport has taken the first four bytes of the      *)
(* local control stream, all its credit allowed, and the other five are  *)
(* still in the buffer                                                   *)
C31_Witness ==
    /\ control_stream_local.stream_id # None
    /\ conn.sent[control_stream_local.stream_id] = SubSeq(InitBytes, 1, 4)
    /\ control_stream_local.buf = SubSeq(InitBytes, 5, Len(InitBytes))
    /\ conn.credit = 0

(* the owners handle_stream_readable can find for a stream id, by the    *)
(* test each arm of its chain makes                                      *)
OwnersOf(id) ==
    {o \in {"client", "server", "control", "encoder", "decoder", "new"} :
        CASE o = "client" -> role = "Client" /\ id \in DOMAIN request_streams_client
          [] o = "server" -> role = "Server" /\ id \in DOMAIN request_streams_server
          [] o = "control" -> control_stream_remote.stream_id = id
          [] o = "encoder" -> QPackIsRecvStream(qpack_encoder, id)
          [] o = "decoder" -> QPackIsRecvStream(qpack_decoder, id)
          [] OTHER -> id \in DOMAIN new_streams}

(* the dispatch has read no stream but the one it was called for *)
OnlyRead(r, id) ==
    \A o \in DOMAIN conn.recv \ {id} : r.conn.recv[o] = conn.recv[o]

TypedAfter(n) == [i \in 1..(Len(log.types') - n) |-> log.types'[n + i][1]]

(* a QPACK receive stream is bound to id in q and was not in p *)
NewlyBound(p, q, id) == QPackIsRecvStream(q, id) /\ ~QPackIsRecvStream(p, id)

TypeBytesKnown(id) == new_streams[id].reader \o conn.recv[id].data

(* the bytes hold the whole varint of the type *)
TypeComplete(bytes) == bytes # <<>> /\ Len(bytes) >= VarintLen(bytes[1])

(* the type the bytes start with *)
TypeOf(bytes) == VarintValue(SubSeq(bytes, 1, VarintLen(bytes[1])))

(* the stream is dropped without a trace: its reader is removed, no type *)
(* is read, nothing is asked of the peer and the connection is as before *)
DroppedSilently(r, id) ==
    /\ r.err = NoErr
    /\ id \notin DOMAIN r.new_streams
    /\ r = [Self EXCEPT !.new_streams = MapRemove(@, id), !.conn = r.conn]
    /\ r.conn = [conn EXCEPT !.recv = r.conn.recv]

(* C34: reading the type of a peer unidirectional stream has three       *)
(* outcomes: when the bytes readable complete the type varint the stream *)
(* is given to its owner by decode_new_stream and the reader is removed; *)
(* when they do not and the stream is not finished the reader stays with *)
(* the bytes read so far and nothing else changes; when the stream is    *)
(* finished (or cannot be read) before the type is complete the reader   *)
(* is removed with no error and no other change. A reader is pending     *)
(* only for a stream with no owner, no type read and an incomplete type. *)
C34_NewStreamTypeOutcomes ==
    \A id \in DOMAIN new_streams :
       state \in {Connected, GoingAway} =>
       With(HandleStreamReadable(Self, id), LAMBDA r :
          /\ OwnersOf(id) = {"new"}
          /\ ~new_streams[id].fin
          /\ ~TypeComplete(new_streams[id].reader)
          /\ \A i \in DOMAIN log.types : log.types[i][1] # id
          /\ id \in DOMAIN conn.recv
          /\ TypeComplete(TypeBytesKnown(id)) =>
                /\ r.log.types = Append(log.types, <<id, TypeOf(TypeBytesKnown(id))>>)
                /\ r.err = NoErr => id \notin DOMAIN r.new_streams
          /\ (~TypeComplete(TypeBytesKnown(id)) /\ ~conn.recv[id].fin) =>
                /\ r = [Self EXCEPT !.new_streams[id].reader = TypeBytesKnown(id),
                                    !.conn = r.conn]
                /\ r.conn = [conn EXCEPT !.recv[id].data = <<>>]
          /\ (~TypeComplete(TypeBytesKnown(id)) /\ conn.recv[id].fin) =>
                DroppedSilently(r, id))

(* the requests to stop sending that the step hands to the transport *)
NewStopSending == conn'.stop_sending \ conn.stop_sending

(* C35: on a server an error on a request stream that is scoped to the   *)
(* stream (WrongStream, UnexpectedFrame) asks the peer to stop sending    *)
(* with the code of the error and removes the stream from                 *)
(* request_streams_server, with no error of the connection and the state  *)
(* as it was: so does read_stream_server in every state for every request *)
(* stream whose next read fails in that way, and so does every step that  *)
(* hands such a request to stop sending to the transport.                 *)
C35_ServerStreamError ==
    [][/\ \A id \in DOMAIN request_streams_server :
            With(ServerReceive(request_streams_server[id], conn, id), LAMBDA res :
               (role = "Server" /\ IsStreamError(res.err)) =>
                  With(ReadStreamServer(Self, id, FALSE).h, LAMBDA r :
                     /\ <<id, res.err>> \in r.conn.stop_sending
                     /\ id \notin DOMAIN r.request_streams_server
                     /\ r.err = NoErr
                     /\ r.state = state))
       /\ \A p \in NewStopSending :
            (role = "Server" /\ IsBidi(p[1]) /\ IsStreamError(p[2])) =>
               /\ p[1] \notin DOMAIN request_streams_server'
               /\ state' = state]_vars

CloseCodesPending ==
    {conn.events[i].code : i \in {j \in DOMAIN conn.events :
                                     conn.events[j].e = "ConnectionClosed"}}

(* the events of requests *)
RequestEvents(evs) == {x \in evs : x.e \in {"HeaderReady", "DataReadable", "RequestClosed"}}

(* C37: the process_http3 tick whose events pass handles the             *)
(* ConnectionClosed event of the transport ends with that event alone    *)
(* pending, whatever streams were readable in the tick; and a step taken *)
(* in the state Closed adds no HeaderReady, DataReadable or              *)
(* RequestClosed event.                                                  *)
C37_ClosedAddsNoEvents ==
    [][/\ (TickTaken /\ CloseCodesPending # {} /\ CheckConnectionEvents(Self).err = NoErr) =>
             \E code \in CloseCodesPending : events' = {ConnectionClosed(code)}
       /\ state.t = "Closed" => RequestEvents(events') \subseteq RequestEvents(events)]_vars

(* C38: the maps of request streams go with the role: a server holds no  *)
(* client request stream, whatever was called (fetch registers nothing   *)
(* on a server), and a client holds no server request stream.            *)
C38_RoleExclusiveMaps ==
    /\ role = "Server" => request_streams_client = EmptyMap
    /\ role = "Client" => request_streams_server = EmptyMap

(* the bytes the transport holds for the stream start with the SETTINGS  *)
(* frame of the peer                                                     *)
SettingsReadable(id) ==
    /\ id \in DOMAIN conn.recv
    /\ Len(conn.recv[id].data) >= Len(SettingsBytes)
    /\ SubSeq(conn.recv[id].data, 1, Len(SettingsBytes)) = SettingsBytes

(* C39: the SETTINGS of the peer do not wait for another event of the    *)
(* transport: when process_http3 has run since the last input and the    *)
(* connection is up, a bound control stream whose SETTINGS frame is      *)
(* readable (the type was read on the RecvStreamReadable path) has had   *)
(* the frame processed, settings_received being true, or is marked       *)
(* readable for the next tick, as a newly bound QPACK stream is.         *)
C39_SettingsNotStalled ==
    (/\ state \in {Connected, GoingAway}
     /\ peer.pending = 0
     /\ control_stream_remote.stream_id # None
     /\ control_stream_remote.frame_reader = <<>>
     /\ SettingsReadable(control_stream_remote.stream_id))
       => \/ settings_received
          \/ control_stream_remote.stream_id \in streams_are_readable

(* C40: the demo client calls fetch on a connection that is Connected:   *)
(* when process_loop with the PreConnectHandler has returned and         *)
(* client() is about to call fetch(...).unwrap(), the state is           *)
(* Connected, never Closing or Closed.                                   *)
C40_DemoFetchesWhenConnected ==
    log.demo = "fetch" => state = Connected

====
